---- MODULE Spec2Model ----
(***************************************************************************)
(* A model of the runtime module loader of the JupyterLab extension        *)
(* builder (src/src/loader.ts): the registry of defined modules, the       *)
(* semver-resolving require, and the script-injecting bundle loader.       *)
(*                                                                         *)
(* JavaScript strings are modelled as sequences of one-character strings,  *)
(* so that the path regular expression is computed rather than assumed.    *)
(***************************************************************************)
EXTENDS Integers, Sequences, FiniteSets, TLC

(***************************************************************************)
(* Bounds of the model.                                                    *)
(***************************************************************************)
\* the number of define calls made by the host page and its bundles
MaxDefines == 3
\* the number of require calls made by the host page (factories make more)
MaxRequires == 2
\* the number of ensureBundle calls made by the host page (waiters make more)
MaxEnsures == 3

(***************************************************************************)
(* The strings used as inputs.                                             *)
(***************************************************************************)
A100 == <<"a", "@", "1", ".", "0", ".", "0">>
A123 == <<"a", "@", "1", ".", "2", ".", "3">>
A200 == <<"a", "@", "2", ".", "0", ".", "0">>
B100m == <<"b", "@", "1", ".", "0", ".", "0", "/", "m">>

ReqA1 == <<"a", "@", "^", "1", ".", "0", ".", "0">>
ReqA1t == <<"a", "@", "~", "1", ".", "0", ".", "0">>
ReqA2 == <<"a", "@", "^", "2", ".", "0", ".", "0">>
ReqBm == <<"b", "@", "^", "1", ".", "0", ".", "0", "/", "m">>
ReqB == <<"b", "@", "^", "1", ".", "0", ".", "0">>
ReqBad == <<"a", "/", "m">>

\* the paths passed to require by the host page
ReqPaths == {ReqA1, ReqA1t, ReqA2, ReqBm, ReqB, ReqBad}

(***************************************************************************)
(* Factories (the callbacks passed to define).  A factory is the sequence  *)
(* of the things its body does with the three arguments it is handed:      *)
(* require(path), module.exports = <a new object>, and throwing.           *)
(***************************************************************************)
OpRequire(path) == [op |-> "require", path |-> path]
OpSetExports == [op |-> "setExports", path |-> <<>>]
OpThrow == [op |-> "throw", path |-> <<>>]
\* ensureBundle(url, callback) called from a callback's body
OpEnsure(url, callback) == [op |-> "ensure", path |-> url, callback |-> callback]

FPlain == <<>>
FCycleA == <<OpRequire(ReqBm), OpSetExports>>
FCycleB == <<OpRequire(ReqA1)>>
FThrow == <<OpThrow>>

\* the define calls the bundles of the page make: the modules a and b/m
\* require each other, the build of a@1.0.0 exists in two bundles with
\* different factories, and the factory of a@2.0.0 throws
Definitions ==
    {[path |-> A100, callback |-> FCycleA],
     [path |-> A100, callback |-> FPlain],
     [path |-> A123, callback |-> FPlain],
     [path |-> A200, callback |-> FThrow],
     [path |-> B100m, callback |-> FCycleB]}

(***************************************************************************)
(* The callbacks passed to ensureBundle: what the callback does when it is *)
(* invoked.  The argument is optional: NoCallback is the absent one.       *)
(***************************************************************************)
UrlX == "x.js"
UrlY == "y.js"

Urls == {UrlX, UrlY}

NoCallback == [given |-> FALSE, body |-> <<>>]
CbPlain == [given |-> TRUE, body |-> <<>>]
CbAgainX == [given |-> TRUE, body |-> <<OpEnsure(UrlX, CbPlain)>>]
CbOtherY == [given |-> TRUE, body |-> <<OpEnsure(UrlY, CbPlain)>>]
CbThrow == [given |-> TRUE, body |-> <<OpThrow>>]
\* a callback that calls the function it is handed: require('a@^1.0.0')
CbRequire == [given |-> TRUE, body |-> <<OpRequire(ReqA1)>>]

EnsureCallbacks == {NoCallback, CbPlain, CbAgainX, CbOtherY, CbThrow, CbRequire}

(***************************************************************************)
(* The state of one ModuleLoader.                                          *)
(***************************************************************************)
VARIABLES
    _registered,   \* loader.ts:204  the defined factories, in insertion order
    _parsed,       \* loader.ts:205  the memo of _parsePath
    _modules,      \* loader.ts:206  the module records, by module id
    _lookupCache,  \* loader.ts:208  request string -> resolved module id
    _bundles,      \* loader.ts:207  the bundle records, by url
    scripts,       \* the script elements appended to the document head
    stack,         \* the calls in progress: factories, waiters, onload handlers
    created,       \* module id -> the number of objects created for its exports
    nDefines,      \* history: the number of define calls
    firstDefined,  \* history: path -> the callback of its first define
    nRequires,     \* history: the number of require calls of the host page
    invoked,       \* history: module id -> the factories invoked for it
    resolved,      \* history: the outcome of the last _findModuleId call
    returned,      \* history: the require calls that returned since the last define
    failed,        \* history: the request strings whose resolution has failed
    nEnsures,      \* history: the number of ensureBundle calls of the host page
    calls,         \* history: the ensureBundle calls made, in order
    cbLog          \* history: the invocations of ensureBundle callbacks, in order

registryVars == <<_registered, _parsed, _modules, _lookupCache, created,
                  nDefines, firstDefined, nRequires, invoked, resolved, returned,
                  failed>>

bundleVars == <<_bundles, scripts, nEnsures, calls, cbLog>>

(***************************************************************************)
(* A page with several ModuleLoader instances: the tables of each (lines   *)
(* 204-208) and what they share, the function ModuleLoader.prototype       *)
(* .require, whose property e the constructor assigns (line 20).           *)
(***************************************************************************)
VARIABLES
    loaders,       \* instance -> its tables
    requireE,      \* the instance ModuleLoader.prototype.require.e is bound to
    pageScripts,   \* the script elements the instances appended to the head
    actor,         \* history: the instance the last operation was performed on
    nPageOps,      \* history: the number of calls made by the page
    lastOp         \* history: the last operation of the page or the browser

pageVars == <<loaders, requireE, pageScripts, actor, nPageOps, lastOp>>

(***************************************************************************)
(* A build: the compilation the bundler hands to the emit hook of the      *)
(* rewriter (plugin.ts:48) and what the hook makes of it.                  *)
(***************************************************************************)
VARIABLES
    phase,         \* "idle", "compiled" (before the emit hook), "emitted"
    compilation,   \* the modules and the chunks of the build
    emit,          \* the outcome of the emit hook: error, assets, callback
    ran,           \* the emitted chunk files the page has run
    built,         \* what buildExtension returned and what became of a
                   \* continuation attached to it
    run            \* history: the page's require of the entry module of the
                   \* build, with the calls the factories made

pluginVars == <<phase, compilation, emit, ran, built, run>>

(***************************************************************************)
(* The host application checks the entry point of a loaded extension:      *)
(* validateEntry (validate.ts:11-32) and extractPlugins.                   *)
(***************************************************************************)
VARIABLES
    validated      \* the last call: the function, its argument, its outcome

entryVars == <<validated>>

(***************************************************************************)
(* The path parser of a fresh loader, called on a string of its own.       *)
(***************************************************************************)
VARIABLES
    parsedPath     \* the last call: the string and the memo after the call

codecVars == <<parsedPath>>

(***************************************************************************)
(* The package probe of the rewriter, called on a file path of its own.    *)
(***************************************************************************)
VARIABLES
    probed         \* the last call: the path, the root found, the define path

probeVars == <<probed>>

\* what lies outside the one loader that Spec and SpecBundle follow
outerVars == <<pageVars, pluginVars, entryVars, codecVars, probeVars, probeVars>>

vars == <<registryVars, bundleVars, stack, outerVars>>

(***************************************************************************)
(* Helpers on strings.                                                     *)
(***************************************************************************)
\* the least index i >= from with s[i] in chars, or 0 when there is none
IndexIn(s, chars, from) ==
    LET hits == {i \in from..Len(s) : s[i] \in chars}
    IN IF hits = {} THEN 0 ELSE CHOOSE i \in hits : \A j \in hits : i <= j

\* s[from..to], the empty string when from > to
Slice(s, from, to) == IF from > to THEN <<>> ELSE SubSeq(s, from, to)

(***************************************************************************)
(* The regular expression of _parsePath (loader.ts:191), in words: at the  *)
(* start of the string, lazily and optionally a scope ("@", one or more    *)
(* characters other than "/", then "/"), then a lazy name of one or more   *)
(* characters other than "/" and "@"; then "@"; then a lazy version of one *)
(* or more characters other than "/"; then optionally "/" and the rest;    *)
(* then the end of the string.  match[1] (scope and name) is the package,  *)
(* match[2] the version, match[3] the module: undefined, here the empty    *)
(* string, when the path has no tail.                                      *)
(***************************************************************************)
NullInfo == [ok |-> FALSE, package |-> <<>>, version |-> <<>>, module |-> <<>>]

\* a bug the expression could have: a greedy version that runs to the end
VersionEndGreedy(path, at) == Len(path)

\* the index of the last character of the version that follows the "@" at
\* index at: the version runs up to the first "/" or the end of the string
VersionEnd(path, at) ==
    CHOOSE v \in at..Len(path) :
        /\ \A i \in (at + 1)..v : path[i] # "/"
        /\ v = Len(path) \/ path[v + 1] = "/"

\* the groups of the match whose name begins at start, whose "@" is at index
\* at (0 when there is none) and whose version ends at vend
MatchGroups(path, start, at, vend) ==
    IF /\ at > start                                   \* the name is not empty
       /\ \A i \in start..(at - 1) : path[i] # "/"     \* and holds no "/"
       /\ vend > at                                    \* the version is not empty
       /\ \A i \in (vend + 1)..Len(path) : path[i] # "\n"  \* "." is no newline
    THEN [ok |-> TRUE,
          package |-> Slice(path, 1, at - 1),
          version |-> Slice(path, at + 1, vend),
          module |-> Slice(path, vend + 1, Len(path))]
    ELSE NullInfo

\* name "@" version tail, with the "@" at index at
MatchAt(path, start, at) == MatchGroups(path, start, at, VersionEnd(path, at))

\* name "@" version tail, matched with the name beginning at index start
MatchName(path, start) == MatchAt(path, start, IndexIn(path, {"@"}, start))

\* the scope is lazy: the match without it (bare) is tried first
Lazily(bare, scoped) == IF bare.ok THEN bare ELSE scoped

\* the match of the regular expression on path; NullInfo when there is none
PathRegex(path) ==
    Lazily(MatchName(path, 1),
           IF Len(path) > 0 /\ path[1] = "@" /\ IndexIn(path, {"/"}, 1) > 2
           THEN MatchName(path, IndexIn(path, {"/"}, 1) + 1)
           ELSE NullInfo)

\* _parsePath (loader.ts:186-202): the memo after the call; the value the
\* call returns is the memo's entry for path.  A memoised null is falsy, so
\* it is computed again (and stored again).
_parsePath(path, cache) ==
    IF path \in DOMAIN cache /\ cache[path].ok
    THEN cache
    ELSE (path :> PathRegex(path)) @@ cache

(***************************************************************************)
(* The semver package's maxSatisfying, for versions of the form d.d.d and  *)
(* ranges of the forms d.d.d, ^d.d.d and ~d.d.d.                           *)
(***************************************************************************)
Digits == <<"0", "1", "2", "3", "4", "5", "6", "7", "8", "9">>

IsDigit(c) == \E d \in 1..Len(Digits) : Digits[d] = c

DigitValue(c) == (CHOOSE d \in 1..Len(Digits) : Digits[d] = c) - 1

\* is v of the form d.d.d
ValidVersion(v) ==
    /\ Len(v) = 5
    /\ IsDigit(v[1]) /\ v[2] = "." /\ IsDigit(v[3]) /\ v[4] = "." /\ IsDigit(v[5])

\* <<major, minor, patch>> of a valid version
SemVer(v) == <<DigitValue(v[1]), DigitValue(v[3]), DigitValue(v[5])>>

\* semver's compare on two triples: -1, 0 or 1
Compare(x, y) ==
    IF x[1] # y[1] THEN (IF x[1] < y[1] THEN -1 ELSE 1)
    ELSE IF x[2] # y[2] THEN (IF x[2] < y[2] THEN -1 ELSE 1)
    ELSE IF x[3] # y[3] THEN (IF x[3] < y[3] THEN -1 ELSE 1)
    ELSE 0

\* the comparator set of a range: [ok, lo (inclusive), hi (exclusive)]
Range(range) ==
    IF ValidVersion(range)
    THEN LET v == SemVer(range)
         IN [ok |-> TRUE, lo |-> v, hi |-> <<v[1], v[2], v[3] + 1>>]
    ELSE IF Len(range) = 6 /\ ValidVersion(Tail(range)) /\ range[1] = "~"
    THEN LET v == SemVer(Tail(range))
         IN [ok |-> TRUE, lo |-> v, hi |-> <<v[1], v[2] + 1, 0>>]
    ELSE IF Len(range) = 6 /\ ValidVersion(Tail(range)) /\ range[1] = "^"
    THEN LET v == SemVer(Tail(range))
         IN [ok |-> TRUE, lo |-> v,
             hi |-> IF v[1] > 0 THEN <<v[1] + 1, 0, 0>>
                    ELSE IF v[2] > 0 THEN <<0, v[2] + 1, 0>>
                    ELSE <<0, 0, v[3] + 1>>]
    ELSE [ok |-> FALSE, lo |-> <<0, 0, 0>>, hi |-> <<0, 0, 0>>]

\* semver's satisfies(version, range)
Satisfies(version, range) ==
    LET r == Range(range)
    IN /\ r.ok
       /\ ValidVersion(version)
       /\ Compare(SemVer(version), r.lo) >= 0
       /\ Compare(SemVer(version), r.hi) < 0

\* semver's maxSatisfying(versions, range): the greatest version of the list
\* that satisfies the range, the empty string (null) when none does
maxSatisfying(versions, range) ==
    LET sat == {i \in 1..Len(versions) : Satisfies(versions[i], range)}
    IN IF sat = {} THEN <<>>
       ELSE versions[CHOOSE i \in sat : \A j \in sat :
                        Compare(SemVer(versions[i]), SemVer(versions[j])) >= 0]

\* Array.prototype.indexOf, 1-based; 0 when x is not in the list
indexOf(list, x) ==
    LET hits == {i \in 1..Len(list) : list[i] = x}
    IN IF hits = {} THEN 0 ELSE CHOOSE i \in hits : \A j \in hits : i <= j

(***************************************************************************)
(* The registry: define (loader.ts:31-35).                                 *)
(***************************************************************************)
\* Object.keys(this._registered): the keys in insertion order
Keys(registered) == [i \in 1..Len(registered) |-> registered[i].path]

\* path in this._registered
HasKey(registered, path) == \E i \in 1..Len(registered) : registered[i].path = path

\* this._registered[id]
Callback(registered, id) ==
    registered[CHOOSE i \in 1..Len(registered) : registered[i].path = id].callback

\* a bug define could have: the last definition of a path wins
RegisterLast(registered, path, callback) ==
    IF HasKey(registered, path)
    THEN [i \in 1..Len(registered) |->
            IF registered[i].path = path
            THEN [path |-> path, callback |-> callback]
            ELSE registered[i]]
    ELSE Append(registered, [path |-> path, callback |-> callback])

\* the table after define(path, callback): the first definition of a path wins
Register(registered, path, callback) ==
    IF ~HasKey(registered, path)
    THEN Append(registered, [path |-> path, callback |-> callback])
    ELSE registered

(***************************************************************************)
(* Resolution: _findModuleId (loader.ts:107-144).  The three errors it     *)
(* throws are named as the specification names them: "BadPath" (Invalid    *)
(* module path), "NoMatch" (No module found matching) and "NoSatisfying"   *)
(* (No module found satisying).                                            *)
(***************************************************************************)
\* a bug the lookup could have: the cache is never consulted
CacheMiss(cache, path) == FALSE

\* if (cache[path]): the cached id is a non-empty string
CacheHit(cache, path) == path \in DOMAIN cache /\ cache[path] # <<>>

\* the body of the loop of lines 120-129 for the registered path mod, whose
\* parse is parsed[mod]: acc holds matches, versions and the memo of _parsePath
LoopBody(mod, source, acc, parsed) ==
    IF /\ parsed[mod].ok
       /\ source.package = parsed[mod].package
       /\ source.module = parsed[mod].module
    THEN [matches |-> Append(acc.matches, mod),
          versions |-> Append(acc.versions, parsed[mod].version),
          parsed |-> parsed]
    ELSE [matches |-> acc.matches, versions |-> acc.versions, parsed |-> parsed]

RECURSIVE Scan(_, _, _, _)
\* the loop of lines 120-129 from modules[i] on
Scan(modules, source, i, acc) ==
    IF i > Len(modules) THEN acc
    ELSE Scan(modules, source, i + 1,
              LoopBody(modules[i], source, acc, _parsePath(modules[i], acc.parsed)))

\* maxSatisfying's answer as an index (1-based) into versions, 0 for null
IndexOfBest(versions, best) == IF best = <<>> THEN 0 ELSE indexOf(versions, best)

\* a bug the lookup could have: the selector is consulted for a single match
\* as well
SelectAlways(matches, versions, range) ==
    IndexOfBest(versions, maxSatisfying(versions, range))

\* lines 134-141: the index (1-based) of the selected match, 0 when
\* maxSatisfying finds none; a single match is selected as it is
Select(matches, versions, range) ==
    IF Len(matches) > 1
    THEN IndexOfBest(versions, maxSatisfying(versions, range))
    ELSE 1

\* a bug the lookup could have: the first match is memoised before the
\* selection is known to have succeeded
SelectedEager(path, cache, scan, index) ==
    IF index = 0
    THEN [err |-> "NoSatisfying", id |-> <<>>,
          cache |-> (path :> scan.matches[1]) @@ cache, parsed |-> scan.parsed]
    ELSE [err |-> "none", id |-> scan.matches[index],
          cache |-> (path :> scan.matches[index]) @@ cache, parsed |-> scan.parsed]

\* lines 135-143: the throw when no version satisfies the range, otherwise
\* the cache write and the return
Selected(path, cache, scan, index) ==
    IF index = 0
    THEN [err |-> "NoSatisfying", id |-> <<>>, cache |-> cache, parsed |-> scan.parsed]
    ELSE [err |-> "none", id |-> scan.matches[index],
          cache |-> (path :> scan.matches[index]) @@ cache, parsed |-> scan.parsed]

\* lines 131-143, after the loop
Matched(path, cache, scan, range) ==
    IF Len(scan.matches) = 0
    THEN [err |-> "NoMatch", id |-> <<>>, cache |-> cache, parsed |-> scan.parsed]
    ELSE Selected(path, cache, scan, Select(scan.matches, scan.versions, range))

\* lines 114-143, after the path was parsed (parsed[path] is the source)
Parsed(path, modules, cache, parsed) ==
    IF ~parsed[path].ok
    THEN [err |-> "BadPath", id |-> <<>>, cache |-> cache, parsed |-> parsed]
    ELSE Matched(path, cache,
                 Scan(modules, parsed[path], 1,
                      [matches |-> <<>>, versions |-> <<>>, parsed |-> parsed]),
                 parsed[path].version)

\* _findModuleId(path): what it throws (err) or returns (id), and the lookup
\* cache and the memo of _parsePath after the call
_findModuleId(path, registered, cache, parsed) ==
    IF CacheHit(cache, path)
    THEN [err |-> "none", id |-> cache[path], cache |-> cache, parsed |-> parsed]
    ELSE Parsed(path, Keys(registered), cache, _parsePath(path, parsed))

(***************************************************************************)
(* require (loader.ts:47-71).                                              *)
(***************************************************************************)
\* a bug require could have: a module counts as installed once it is loaded
IsLoaded(modules, id) == id \in DOMAIN modules /\ modules[id].loaded

\* a bug require could have: the table of module records is never consulted
NeverInstalled(modules, id) == FALSE

\* if (installed[id]): a module record is an object, hence truthy
IsInstalled(modules, id) == id \in DOMAIN modules

NoResolution == [path |-> <<>>, err |-> "init", id |-> <<>>]

\* Object identity: the n-th object created to be the exports of module id
\* (the {} of line 57, or the object a factory assigns to module.exports)
Count(count, id) == IF id \in DOMAIN count THEN count[id] ELSE 0

NewObject(id) == [of |-> id, n |-> Count(created, id) + 1]

\* A call require(path) made with `callers` on the stack, up to the moment it
\* throws, returns, or hands control to the factory (lines 49-64).  An error
\* is caught by nobody: it unwinds every caller.
CallRequire(path, callers) ==
    \E r \in {_findModuleId(path, _registered, _lookupCache, _parsed)} :
       /\ _parsed' = r.parsed
       /\ _lookupCache' = r.cache
       /\ resolved' = [path |-> path, err |-> r.err, id |-> r.id]
       /\ failed' = IF r.err # "none" THEN failed \cup {path} ELSE failed
       /\ IF r.err # "none"
          THEN /\ stack' = <<>>
               /\ UNCHANGED <<_modules, created, invoked, returned>>
          ELSE IF IsInstalled(_modules, r.id)
          THEN /\ stack' = callers
               /\ returned' = returned \cup
                     {[path |-> path, id |-> r.id, exports |-> _modules[r.id].exports,
                       during |-> ~_modules[r.id].loaded]}
               /\ UNCHANGED <<_modules, created, invoked>>
          ELSE /\ _modules' = (r.id :> [exports |-> NewObject(r.id), id |-> r.id,
                                        loaded |-> FALSE]) @@ _modules
               /\ created' = (r.id :> Count(created, r.id) + 1) @@ created
               /\ invoked' = (r.id :> Append(IF r.id \in DOMAIN invoked
                                             THEN invoked[r.id] ELSE <<>>,
                                             [callback |-> Callback(_registered, r.id),
                                              exports |-> NewObject(r.id)])) @@ invoked
               /\ stack' = Append(callers,
                                  [kind |-> "factory", id |-> r.id, path |-> path,
                                   pc |-> 1, call |-> 0,
                                   callback |-> Callback(_registered, r.id)])
               /\ UNCHANGED returned

\* the tables of a new instance (lines 204-208)
NewLoader ==
    [_registered |-> <<>>, _parsed |-> <<>>, _modules |-> <<>>,
     _lookupCache |-> <<>>, _bundles |-> <<>>]

(***************************************************************************)
(* The actions of the registry.                                            *)
(***************************************************************************)
Init ==
    /\ _registered = <<>>
    /\ _parsed = <<>>
    /\ _modules = <<>>
    /\ _lookupCache = <<>>
    /\ _bundles = <<>>
    /\ scripts = <<>>
    /\ stack = <<>>
    /\ nEnsures = 0
    /\ calls = <<>>
    /\ cbLog = <<>>
    /\ created = <<>>
    /\ nDefines = 0
    /\ firstDefined = <<>>
    /\ nRequires = 0
    /\ invoked = <<>>
    /\ resolved = NoResolution
    /\ returned = {}
    /\ failed = {}
    /\ loaders = <<NewLoader>>
    /\ requireE = 1
    /\ pageScripts = <<>>
    /\ actor = 1
    /\ nPageOps = 0
    /\ lastOp = "none"
    /\ phase = "idle"
    /\ compilation = [name |-> <<>>, modules |-> <<>>, chunks |-> <<>>]
    /\ emit = [err |-> "none", assets |-> <<>>, called |-> FALSE]
    /\ ran = {}
    /\ built = [returned |-> "none", then |-> "none"]
    /\ run = [called |-> FALSE, err |-> "none", log |-> <<>>]
    /\ validated = [fn |-> "none"]
    /\ parsedPath = [path |-> <<>>, memo |-> <<>>]
    /\ probed = [called |-> FALSE]

\* define(path, callback), called by the page or by a bundle's script
Define(path, callback) ==
    /\ stack = <<>>
    /\ nDefines < MaxDefines
    /\ nDefines' = nDefines + 1
    /\ _registered' = Register(_registered, path, callback)
    /\ firstDefined' =
          IF path \in DOMAIN firstDefined
          THEN [firstDefined EXCEPT ![path].again = @ \/ callback # firstDefined[path].callback]
          ELSE (path :> [callback |-> callback, again |-> FALSE]) @@ firstDefined
    /\ resolved' = NoResolution
    /\ returned' = {}
    /\ UNCHANGED <<_parsed, _modules, _lookupCache, stack, created, nRequires, invoked,
                   failed>>
    /\ UNCHANGED <<bundleVars, outerVars>>

\* require(path), called by the page
Require(path) ==
    /\ stack = <<>>
    /\ nRequires < MaxRequires
    /\ nRequires' = nRequires + 1
    /\ CallRequire(path, <<>>)
    /\ UNCHANGED <<_registered, nDefines, firstDefined>>
    /\ UNCHANGED <<bundleVars, outerVars>>

\* the frame of the executing factory and the operation it is at
Top == stack[Len(stack)]

AtOp(kind, op) ==
    /\ stack # <<>>
    /\ Top.kind = kind
    /\ Top.pc <= Len(Top.callback)
    /\ Top.callback[Top.pc].op = op

\* the stack once the executing factory has moved past its operation
Advanced == [stack EXCEPT ![Len(stack)].pc = @ + 1]

\* the executing factory calls the require function it was handed
FactoryRequire ==
    /\ AtOp("factory", "require")
    /\ CallRequire(Top.callback[Top.pc].path, Advanced)
    /\ UNCHANGED <<_registered, nDefines, firstDefined, nRequires>>
    /\ UNCHANGED <<bundleVars, outerVars>>

\* the executing factory assigns a new object to module.exports
FactorySetExports ==
    /\ AtOp("factory", "setExports")
    /\ _modules' = [_modules EXCEPT ![Top.id].exports = NewObject(Top.id)]
    /\ created' = [created EXCEPT ![Top.id] = @ + 1]
    /\ stack' = Advanced
    /\ UNCHANGED <<_registered, _parsed, _lookupCache, nDefines, firstDefined,
                   nRequires, invoked, resolved, returned, failed>>
    /\ UNCHANGED <<bundleVars, outerVars>>

\* a bug require could have: a handler around the factory call that removes
\* the records of the modules whose factories the error leaves
FactoryThrowUninstalls ==
    /\ AtOp("factory", "throw")
    /\ stack' = <<>>
    /\ _modules' = [id \in DOMAIN _modules \ {stack[i].id : i \in 1..Len(stack)}
                       |-> _modules[id]]
    /\ UNCHANGED <<_registered, _parsed, _lookupCache, created, nDefines,
                   firstDefined, nRequires, invoked, resolved, returned, failed>>
    /\ UNCHANGED <<bundleVars, outerVars>>

\* the executing factory throws: require has no handler, so the error unwinds
\* every require call on the stack (line 64)
FactoryThrow ==
    /\ AtOp("factory", "throw")
    /\ stack' = <<>>
    /\ UNCHANGED <<registryVars, bundleVars, outerVars>>

\* the executing factory returns: lines 66-70 of the require call that ran it
FactoryReturn ==
    /\ stack # <<>>
    /\ Top.kind = "factory"
    /\ Top.pc > Len(Top.callback)
    /\ _modules' = [_modules EXCEPT ![Top.id].loaded = TRUE]
    /\ returned' = returned \cup
          {[path |-> Top.path, id |-> Top.id, exports |-> _modules[Top.id].exports,
            during |-> FALSE]}
    /\ stack' = SubSeq(stack, 1, Len(stack) - 1)
    /\ UNCHANGED <<_registered, _parsed, _lookupCache, created, nDefines,
                   firstDefined, nRequires, invoked, resolved, failed>>
    /\ UNCHANGED <<bundleVars, outerVars>>

Next ==
    \/ \E d \in Definitions : Define(d.path, d.callback)
    \/ \E path \in ReqPaths : Require(path)
    \/ FactoryRequire
    \/ FactorySetExports
    \/ FactoryThrow
    \/ FactoryReturn

Spec == Init /\ [][Next]_vars

(***************************************************************************)
(* The bundle loader: ensureBundle (loader.ts:80-95) and _createBundle     *)
(* (loader.ts:149-177).                                                    *)
(***************************************************************************)
\* a bug ensureBundle could have: only a loaded record counts as present
HasLoadedBundle(bundles, url) == url \in DOMAIN bundles /\ bundles[url].loaded

\* bundles[path]: a bundle record is an object, hence truthy
HasBundle(bundles, url) == url \in DOMAIN bundles

\* the record _createBundle stores (lines 171-175); its promise is pending
NewBundle == [loaded |-> FALSE, callbacks |-> <<>>, promise |-> "pending"]

\* the script element of lines 151-170, as appended to the head
NewScript(url) == [src |-> url, state |-> "loading"]

\* where the bundle of a url stands, as the page can observe it
BundleState(url) ==
    IF ~HasBundle(_bundles, url) THEN "new"
    ELSE IF _bundles[url].loaded THEN "loaded"
    ELSE IF _bundles[url].promise = "rejected" THEN "failed"
    ELSE IF \E i \in 1..Len(scripts) :
               scripts[i].src = url /\ scripts[i].state = "load"
         THEN "loading-fired"
    ELSE "pending"

\* a bug ensureBundle could have: the loaded branch does not return, so the
\* callback is also queued
QueuesAlways(bundle, callback) == callback.given

\* lines 84-93: is the callback appended to the record's callbacks
Queues(bundle, callback) == ~bundle.loaded /\ callback.given

\* a bug ensureBundle could have: a promise of its own for every call
ReturnsFresh(bundle, callback) ==
    IF bundle.loaded /\ callback.given THEN "running" ELSE "fresh"

\* lines 84-94: what the call returns: a fresh resolved promise on a loaded
\* record ("running" until the callback called at line 86 has returned),
\* otherwise the promise of the record
Returns(bundle, callback) ==
    IF bundle.loaded
    THEN (IF callback.given THEN "running" ELSE "fresh")
    ELSE "bundle"

\* lines 86 and 160, callback.call(null, this.require): the argument is the
\* function of the prototype, which is not bound to the instance
HandedRequire == [bound |-> FALSE]

\* the url whose onload handler is at the bottom of the stack, "" if none is
Draining(frames) ==
    IF frames # <<>> /\ frames[1].kind = "drain" THEN frames[1].id ELSE ""

\* A call ensureBundle(url, callback) made with `callers` on the stack, up to
\* the moment it returns or hands control to the callback.
CallEnsure(url, callback, callers) ==
    LET exists == HasBundle(_bundles, url)
        bundle == IF exists THEN _bundles[url] ELSE NewBundle
        k == Len(calls) + 1
        sync == bundle.loaded /\ callback.given
        queued == Queues(bundle, callback)
    IN /\ scripts' = IF exists THEN scripts ELSE Append(scripts, NewScript(url))
       /\ _bundles' = (url :> [bundle EXCEPT !.callbacks =
                                  IF queued THEN Append(@, [call |-> k, fn |-> callback])
                                  ELSE @]) @@ _bundles
       /\ calls' = Append(calls,
                          [url |-> url, callback |-> callback, at |-> BundleState(url),
                           injected |-> ~exists, queued |-> queued,
                           drain |-> Draining(callers),
                           ret |-> Returns(bundle, callback)])
       /\ cbLog' = IF sync
                   THEN Append(cbLog, [call |-> k, url |-> url, loaded |-> TRUE,
                                       promise |-> "fresh", require |-> HandedRequire,
                                       plain |-> "none"])
                   ELSE cbLog
       /\ stack' = IF sync
                   THEN Append(callers,
                               [kind |-> "waiter", id |-> url, path |-> <<>>, pc |-> 1,
                                call |-> k, callback |-> callback.body])
                   ELSE callers

\* ensureBundle(url, callback), called by the page
EnsureBundle(url, callback) ==
    /\ stack = <<>>
    /\ nEnsures < MaxEnsures
    /\ nEnsures' = nEnsures + 1
    /\ CallEnsure(url, callback, <<>>)
    /\ UNCHANGED <<registryVars, outerVars>>

\* the executing callback calls ensureBundle
WaiterEnsure ==
    /\ AtOp("waiter", "ensure")
    /\ CallEnsure(Top.callback[Top.pc].path, Top.callback[Top.pc].callback, Advanced)
    /\ UNCHANGED <<registryVars, outerVars, nEnsures>>

\* the executing callback throws: neither ensureBundle nor the onload handler
\* has a handler, so the error unwinds the whole task
WaiterThrow ==
    /\ AtOp("waiter", "throw")
    /\ stack' = <<>>
    /\ calls' = [k \in 1..Len(calls) |->
                    IF calls[k].ret = "running"
                    THEN [calls[k] EXCEPT !.ret = "threw"]
                    ELSE calls[k]]
    /\ UNCHANGED <<registryVars, outerVars, _bundles, scripts, nEnsures, cbLog>>

\* the executing callback calls the function it was handed as a plain
\* function, require(path): `this` is not the instance, so the first
\* statement of require, this._findModuleId(path) (line 49), throws a
\* TypeError, which unwinds the whole task as any error of a callback does
WaiterRequire ==
    /\ AtOp("waiter", "require")
    /\ ~HandedRequire.bound
    /\ stack' = <<>>
    /\ calls' = [k \in 1..Len(calls) |->
                    IF calls[k].ret = "running"
                    THEN [calls[k] EXCEPT !.ret = "threw"]
                    ELSE calls[k]]
    /\ cbLog' = [j \in 1..Len(cbLog) |->
                    IF cbLog[j].call = Top.call
                    THEN [cbLog[j] EXCEPT !.plain = "TypeError"]
                    ELSE cbLog[j]]
    /\ UNCHANGED <<registryVars, outerVars, _bundles, scripts, nEnsures>>

\* the executing callback returns.  One invoked by ensureBundle itself (line
\* 86) returns into that call, which returns Promise.resolve() (line 88).
WaiterReturn ==
    /\ stack # <<>>
    /\ Top.kind = "waiter"
    /\ Top.pc > Len(Top.callback)
    /\ stack' = SubSeq(stack, 1, Len(stack) - 1)
    /\ calls' = IF calls[Top.call].ret = "running"
                THEN [calls EXCEPT ![Top.call].ret = "fresh"]
                ELSE calls
    /\ UNCHANGED <<registryVars, outerVars, _bundles, scripts, nEnsures, cbLog>>

\* the browser fires load on a script: script.onload starts (lines 157-158)
ScriptLoad(i) ==
    /\ stack = <<>>
    /\ scripts[i].state = "loading"
    /\ scripts' = [scripts EXCEPT ![i].state = "load"]
    /\ stack' = <<[kind |-> "drain", id |-> scripts[i].src, path |-> <<>>, pc |-> 1,
                   call |-> 0, callback |-> <<>>]>>
    /\ UNCHANGED <<registryVars, outerVars, _bundles, nEnsures, calls, cbLog>>

\* script.onload, one turn of the loop of lines 159-161: the first callback
\* is shifted off the record and called
DrainCall ==
    /\ stack # <<>>
    /\ Top.kind = "drain"
    /\ _bundles[Top.id].callbacks # <<>>
    /\ LET w == Head(_bundles[Top.id].callbacks)
       IN /\ _bundles' = [_bundles EXCEPT ![Top.id].callbacks = Tail(@)]
          /\ cbLog' = Append(cbLog, [call |-> w.call, url |-> Top.id,
                                     loaded |-> _bundles[Top.id].loaded,
                                     promise |-> _bundles[Top.id].promise,
                                     require |-> HandedRequire, plain |-> "none"])
          /\ stack' = Append(stack,
                             [kind |-> "waiter", id |-> Top.id, path |-> <<>>, pc |-> 1,
                              call |-> w.call, callback |-> w.fn.body])
    /\ UNCHANGED <<registryVars, outerVars, scripts, nEnsures, calls>>

\* script.onload, lines 162-163: the loop is over, the record is flagged
\* loaded and the promise is resolved
DrainDone ==
    /\ stack # <<>>
    /\ Top.kind = "drain"
    /\ _bundles[Top.id].callbacks = <<>>
    /\ _bundles' = [_bundles EXCEPT ![Top.id].loaded = TRUE,
                                    ![Top.id].promise = "resolved"]
    /\ stack' = SubSeq(stack, 1, Len(stack) - 1)
    /\ UNCHANGED <<registryVars, outerVars, scripts, nEnsures, calls, cbLog>>

\* a bug script.onerror could have: the record is also flagged loaded
RejectLoaded(bundle) == [bundle EXCEPT !.promise = "rejected", !.loaded = TRUE]

\* script.onerror (lines 165-167): reject(err) and nothing else
Reject(bundle) == [bundle EXCEPT !.promise = "rejected"]

\* the browser fires error on a script: script.onerror (lines 165-167)
ScriptError(i) ==
    /\ stack = <<>>
    /\ scripts[i].state = "loading"
    /\ scripts' = [scripts EXCEPT ![i].state = "error"]
    /\ _bundles' = [_bundles EXCEPT ![scripts[i].src] = Reject(@)]
    /\ UNCHANGED <<registryVars, outerVars, stack, nEnsures, calls, cbLog>>

NextBundle ==
    \/ \E url \in Urls, callback \in EnsureCallbacks : EnsureBundle(url, callback)
    \/ WaiterEnsure
    \/ WaiterThrow
    \/ WaiterRequire
    \/ WaiterReturn
    \/ \E i \in 1..Len(scripts) : ScriptLoad(i)
    \/ DrainCall
    \/ DrainDone
    \/ \E i \in 1..Len(scripts) : ScriptError(i)

SpecBundle == Init /\ [][NextBundle]_vars

\* The browser fires load or error on every script it was given, once the
\* task in progress has ended; a task in progress (a call of ensureBundle
\* by the page, a script.onload handler) runs to its end.
ScriptFires == \E i \in 1..Len(scripts) : ScriptLoad(i) \/ ScriptError(i)

TaskRuns ==
    \/ WaiterEnsure
    \/ WaiterThrow
    \/ WaiterRequire
    \/ WaiterReturn
    \/ DrainCall
    \/ DrainDone

SpecBundleFair == SpecBundle /\ WF_vars(ScriptFires) /\ WF_vars(TaskRuns)

(***************************************************************************)
(* Several instances in one page.  A factory is handed                     *)
(* this.require.bind(this) (line 64), which acts on its own instance; a    *)
(* callback of ensureBundle is handed this.require (lines 86 and 160), the *)
(* one function of the prototype, whose property e is bound to the         *)
(* instance constructed last (line 20).  Factories and callbacks run to    *)
(* their end within the call that invokes them.                            *)
(***************************************************************************)
MaxLoaders == 2
MaxPageOps == 3

PageDefinitions ==
    {[path |-> A100, callback |-> FPlain],
     [path |-> A200, callback |-> FThrow]}

PageRequests == {ReqA1, ReqBad}

PageCallbacks == {NoCallback, CbAgainX, CbOtherY}

\* the page: the tables of the instances and the script elements
Page(tables, elements) == [loaders |-> tables, scripts |-> elements]

\* _createBundle (lines 149-177) on instance inst
_createBundle(pg, inst, url) ==
    Page([pg.loaders EXCEPT ![inst]._bundles = (url :> NewBundle) @@ @],
         Append(pg.scripts, [src |-> url, state |-> "loading", owner |-> inst]))

\* line 82: bundles[path] || this._createBundle(path)
GetBundle(pg, inst, url) ==
    IF HasBundle(pg.loaders[inst]._bundles, url) THEN pg
    ELSE _createBundle(pg, inst, url)

RECURSIVE RunCallback(_, _, _, _)
RECURSIVE ensureBundle(_, _, _, _, _)

\* lines 84-94 of inst.ensureBundle(url, callback), the record being there;
\* e is the instance require.e is bound to
Ensured(pg, e, inst, url, callback) ==
    IF pg.loaders[inst]._bundles[url].loaded
    THEN (IF callback.given THEN RunCallback(pg, e, callback.body, 1) ELSE pg)
    ELSE IF Queues(pg.loaders[inst]._bundles[url], callback)
    THEN Page([pg.loaders EXCEPT ![inst]._bundles[url].callbacks = Append(@, callback)],
              pg.scripts)
    ELSE pg

\* inst.ensureBundle(url, callback): the page after the call
ensureBundle(pg, e, inst, url, callback) ==
    Ensured(GetBundle(pg, inst, url), e, inst, url, callback)

\* a callback called with the prototype's require, from its operation pc on:
\* require.e(url, callback) is ensureBundle on instance e
RunCallback(pg, e, body, pc) ==
    IF pc > Len(body) THEN pg
    ELSE RunCallback(ensureBundle(pg, e, e, body[pc].path, body[pc].callback),
                     e, body, pc + 1)

RECURSIVE onload(_, _, _, _)
\* script.onload of a script of instance inst (lines 157-164)
onload(pg, e, inst, url) ==
    IF pg.loaders[inst]._bundles[url].callbacks = <<>>
    THEN Page([pg.loaders EXCEPT ![inst]._bundles[url].loaded = TRUE,
                                 ![inst]._bundles[url].promise = "resolved"],
              pg.scripts)
    ELSE onload(RunCallback(Page([pg.loaders EXCEPT
                                     ![inst]._bundles[url].callbacks = Tail(@)],
                                 pg.scripts),
                            e, Head(pg.loaders[inst]._bundles[url].callbacks).body, 1),
                e, inst, url)

\* the module records after require found id: the factory is run unless the
\* module is installed
Installed(modules, registered, id) ==
    IF IsInstalled(modules, id) THEN modules
    ELSE (id :> [loaded |-> Callback(registered, id) # FThrow]) @@ modules

\* a bug require could have: a resolution that fails empties the lookup cache
RequiredFlushing(loader, r) ==
    [loader EXCEPT
        !._parsed = r.parsed,
        !._lookupCache = IF r.err = "none" THEN r.cache ELSE <<>>,
        !._modules = IF r.err = "none" THEN Installed(@, loader._registered, r.id)
                     ELSE @]

\* the tables of an instance after its require met the resolution r
Required(loader, r) ==
    [loader EXCEPT
        !._parsed = r.parsed,
        !._lookupCache = r.cache,
        !._modules = IF r.err = "none" THEN Installed(@, loader._registered, r.id)
                     ELSE @]

\* new ModuleLoader()
Construct ==
    /\ Len(loaders) < MaxLoaders
    /\ lastOp' = "construct"
    /\ loaders' = Append(loaders, NewLoader)
    /\ requireE' = Len(loaders) + 1
    /\ actor' = Len(loaders) + 1
    /\ UNCHANGED <<registryVars, bundleVars, stack, pluginVars, entryVars, codecVars, probeVars, pageScripts, nPageOps>>

\* inst.define(path, callback)
PageDefine(inst, path, callback) ==
    /\ nPageOps < MaxPageOps
    /\ lastOp' = "define"
    /\ nPageOps' = nPageOps + 1
    /\ loaders' = [loaders EXCEPT ![inst]._registered = Register(@, path, callback)]
    /\ actor' = inst
    /\ UNCHANGED <<registryVars, bundleVars, stack, pluginVars, entryVars, codecVars, probeVars, requireE, pageScripts>>

\* inst.require(path)
PageRequire(inst, path) ==
    /\ nPageOps < MaxPageOps
    /\ lastOp' = "require"
    /\ nPageOps' = nPageOps + 1
    /\ loaders' = [loaders EXCEPT ![inst] =
                      Required(@, _findModuleId(path, @._registered, @._lookupCache,
                                                @._parsed))]
    /\ actor' = inst
    /\ UNCHANGED <<registryVars, bundleVars, stack, pluginVars, entryVars, codecVars, probeVars, requireE, pageScripts>>

\* inst.ensureBundle(url, callback)
PageEnsure(inst, url, callback) ==
    /\ nPageOps < MaxPageOps
    /\ lastOp' = "ensure"
    /\ nPageOps' = nPageOps + 1
    /\ \E pg \in {ensureBundle(Page(loaders, pageScripts), requireE, inst, url, callback)} :
          loaders' = pg.loaders /\ pageScripts' = pg.scripts
    /\ actor' = inst
    /\ UNCHANGED <<registryVars, bundleVars, stack, pluginVars, entryVars, codecVars, probeVars, requireE>>

\* the browser fires load on a script: the onload handler of its instance
PageScriptLoad(i) ==
    /\ pageScripts[i].state = "loading"
    /\ lastOp' = "load"
    /\ \E pg \in {onload(Page(loaders, [pageScripts EXCEPT ![i].state = "load"]),
                         requireE, pageScripts[i].owner, pageScripts[i].src)} :
          loaders' = pg.loaders /\ pageScripts' = pg.scripts
    /\ actor' = pageScripts[i].owner
    /\ UNCHANGED <<registryVars, bundleVars, stack, pluginVars, entryVars, codecVars, probeVars, requireE, nPageOps>>

\* the browser fires error on a script: the onerror handler of its instance
PageScriptError(i) ==
    /\ pageScripts[i].state = "loading"
    /\ lastOp' = "error"
    /\ pageScripts' = [pageScripts EXCEPT ![i].state = "error"]
    /\ loaders' = [loaders EXCEPT
                      ![pageScripts[i].owner]._bundles[pageScripts[i].src] = Reject(@)]
    /\ actor' = pageScripts[i].owner
    /\ UNCHANGED <<registryVars, bundleVars, stack, pluginVars, entryVars, codecVars, probeVars, requireE, nPageOps>>

NextPage ==
    \/ Construct
    \/ \E inst \in 1..Len(loaders), d \in PageDefinitions :
          PageDefine(inst, d.path, d.callback)
    \/ \E inst \in 1..Len(loaders), path \in PageRequests : PageRequire(inst, path)
    \/ \E inst \in 1..Len(loaders), url \in Urls, callback \in PageCallbacks :
          PageEnsure(inst, url, callback)
    \/ \E i \in 1..Len(pageScripts) : PageScriptLoad(i)
    \/ \E i \in 1..Len(pageScripts) : PageScriptError(i)

SpecPage == Init /\ [][NextPage]_vars

(***************************************************************************)
(* The rewriter (plugin.ts).  Strings are sequences of characters; a file  *)
(* path is the sequence of its components, "/" being the empty sequence.   *)
(* The packages on disk:                                                   *)
(*   /r        the project (the working directory), a@1.4.2, which         *)
(*             declares u as ^3.0.0 and names itself as ^1.0.0             *)
(*   /r/n/o    o@2.0.0, which declares u as file:../u                      *)
(*   /r/n/u    u@3.1.0, whose descriptor has no dependency list            *)
(*   /r/n/p    p@0.1.0, marked private                                     *)
(*   /r/n/d.s  d@1.0.0, in a directory whose name holds a dot              *)
(***************************************************************************)
DirR == <<"r">>
DirN == <<"n">>
DirO == <<"o">>
DirU == <<"u">>
DirL == <<"l">>
DirP == <<"p">>
DirX == <<"x">>
DirDs == <<"d", ".", "s">>
FileL == <<"L">>
FileC == <<"c", ".", "j", "s">>
FileM == <<"m", ".", "j", "s">>
FileN == <<"n", ".", "j", "s">>
FileI == <<"i", ".", "j", "s">>
FileJ == <<"j", ".", "j", "s">>
FileH == <<"h", ".", "j", "s">>

\* process.cwd()
Cwd == <<DirR>>

Descriptors ==
    (<<DirR>> :> [name |-> <<"a">>, version |-> <<"1", ".", "4", ".", "2">>,
                  private |-> TRUE, hasDependencies |-> TRUE,
                  dependencies |-> (<<"u">> :> <<"^", "3", ".", "0", ".", "0">>)
                                   @@ (<<"a">> :> <<"^", "1", ".", "0", ".", "0">>)])
    @@ (<<DirR, DirN, DirO>> :>
                 [name |-> <<"o">>, version |-> <<"2", ".", "0", ".", "0">>,
                  private |-> FALSE, hasDependencies |-> TRUE,
                  dependencies |-> (<<"u">> :> <<"f", "i", "l", "e", ":", ".", ".", "/", "u">>)])
    @@ (<<DirR, DirN, DirU>> :>
                 [name |-> <<"u">>, version |-> <<"3", ".", "1", ".", "0">>,
                  private |-> FALSE, hasDependencies |-> FALSE,
                  dependencies |-> <<>>])
    @@ (<<DirR, DirN, DirP>> :>
                 [name |-> <<"p">>, version |-> <<"0", ".", "1", ".", "0">>,
                  private |-> TRUE, hasDependencies |-> TRUE,
                  dependencies |-> <<>>])
    @@ (<<DirR, DirN, DirDs>> :>
                 [name |-> <<"d">>, version |-> <<"1", ".", "0", ".", "0">>,
                  private |-> FALSE, hasDependencies |-> TRUE,
                  dependencies |-> <<>>])

\* path.extname(request) is not empty: the last component has a "." that is
\* not its first character
HasExtname(request) ==
    /\ Len(request) > 0
    /\ \E i \in 2..Len(request[Len(request)]) : request[Len(request)][i] = "."

\* path.dirname(request); the directory of "/" is "/"
dirname(request) == Slice(request, 1, Len(request) - 1)

\* a bug the probe could have: a private descriptor is used anywhere
AcceptedAny(request) == request \in DOMAIN Descriptors

\* lines 331-337: the directory holds a descriptor that is used
Accepted(request) ==
    /\ request \in DOMAIN Descriptors
    /\ ~Descriptors[request].private \/ request = Cwd

RECURSIVE Probe(_)
\* the loop of findRoot (lines 330-346) from the directory request on
Probe(request) ==
    IF Accepted(request) THEN [found |-> TRUE, dir |-> request]
    ELSE IF dirname(request) = request THEN [found |-> FALSE, dir |-> request]
    ELSE Probe(dirname(request))

\* findRoot (lines 325-347); found is FALSE when it throws
findRoot(request) ==
    Probe(IF HasExtname(request) THEN dirname(request) ELSE request)

\* getPackage (lines 356-359), for a request that has a root
getPackage(request) == Descriptors[findRoot(request).dir]

RECURSIVE Join(_, _)
\* parts.join(sep)
Join(parts, sep) ==
    IF Len(parts) = 0 THEN <<>>
    ELSE IF Len(parts) = 1 THEN parts[1]
    ELSE parts[1] \o sep \o Join(Tail(parts), sep)

\* request.slice(rootPath.length + 1): the path below the root, as a string
Below(request, rootPath) ==
    Join(Slice(request, Len(rootPath) + 1, Len(request)), <<"/">>)

\* name, and "/" modPath when modPath is not empty (lines 373-375, 406-408)
WithModPath(name, modPath) ==
    IF modPath # <<>> THEN name \o <<"/">> \o modPath ELSE name

\* getModuleVersionPath (lines 368-377)
getModuleVersionPath(path) ==
    WithModPath(getPackage(findRoot(path).dir).name \o <<"@">>
                    \o getPackage(findRoot(path).dir).version,
                Below(path, findRoot(path).dir))

\* semver.indexOf('file:') === 0
IsFileLink(semver) ==
    Len(semver) >= 5 /\ SubSeq(semver, 1, 5) = <<"f", "i", "l", "e", ":">>

RECURSIVE Resolve(_, _, _)
\* path.resolve(dir, rel), rel read from its character i on: ".." climbs,
\* any other name descends
Resolve(dir, rel, i) ==
    IF i > Len(rel) THEN dir
    ELSE IF rel[i] = "/" THEN Resolve(dir, rel, i + 1)
    ELSE IF i < Len(rel) /\ rel[i] = "." /\ rel[i + 1] = "."
    THEN Resolve(dirname(dir), rel, i + 2)
    ELSE Resolve(Append(dir, Slice(rel, i, VersionEnd(rel, i))), rel,
                 VersionEnd(rel, i) + 1)

\* line 395: issuerPackage.dependencies[name] || rootPackage.version
Declared(issuerPackage, rootPackage) ==
    IF rootPackage.name \in DOMAIN issuerPackage.dependencies
    THEN issuerPackage.dependencies[rootPackage.name]
    ELSE rootPackage.version

\* lines 396-404: the range of the require path
Semver(issuerPackage, rootPackage, issuerPath, semver) ==
    IF issuerPackage.name = rootPackage.name
    THEN <<"~">> \o rootPackage.version
    ELSE IF IsFileLink(semver)
    THEN <<"~">> \o getPackage(Resolve(issuerPath, semver, 6)).version
    ELSE semver

\* getModuleSemverPath (lines 388-410); reading dependencies[name] of a
\* descriptor without a dependency list is a TypeError
getModuleSemverPath(request, issuer) ==
    IF ~getPackage(issuer).hasDependencies
    THEN [err |-> "TypeError", path |-> <<>>]
    ELSE [err |-> "none",
          path |-> WithModPath(
                       getPackage(findRoot(request).dir).name \o <<"@">>
                           \o Semver(getPackage(issuer),
                                     getPackage(findRoot(request).dir),
                                     findRoot(issuer).dir,
                                     Declared(getPackage(issuer),
                                              getPackage(findRoot(request).dir))),
                       Below(request, findRoot(request).dir))]

(***************************************************************************)
(* What the bundler hands to the emit hook.  A module has the fields the   *)
(* rewriter reads: id, userRequest (request; regular tells whether it is   *)
(* set), context, issuer (the module that requested it first; NoIssuer for *)
(* the entry module), external and dependencies.  An ignored module has    *)
(* neither userRequest nor context.  The request of a module is split at   *)
(* its "!": prefixes holds the loaders before the last part, request the   *)
(* last part.  No module here is a context module.                         *)
(***************************************************************************)
NoIssuer == <<>>

Regular(request, dependencies) ==
    [request |-> request, prefixes |-> <<>>, regular |-> TRUE, context |-> TRUE,
     external |-> FALSE, dependencies |-> dependencies]

\* a module built through loaders: its request is loader!...!resource
Loaded(prefixes, request, dependencies) ==
    [request |-> request, prefixes |-> prefixes, regular |-> TRUE, context |-> TRUE,
     external |-> FALSE, dependencies |-> dependencies]

\* the modules the bundler can build, with the modules each one requires
Graph ==
    [m |-> Regular(<<DirR, DirL, FileM>>, <<"n", "oi", "ui">>),
     n |-> Regular(<<DirR, DirL, FileN>>, <<"m">>),
     oi |-> Regular(<<DirR, DirN, DirO, FileI>>, <<"oj", "ui">>),
     oj |-> Regular(<<DirR, DirN, DirO, FileJ>>, <<"ig">>),
     ui |-> Regular(<<DirR, DirN, DirU, FileI>>, <<>>),
     uh |-> Regular(<<DirR, DirN, DirU, FileH>>, <<"ui">>),
     oc |-> Regular(<<DirR, DirN, DirO, FileC>>, <<"us">>),
     us |-> Loaded(<<<<DirR, DirN, DirO, FileJ>>>>, <<DirR, DirN, DirU, FileH>>, <<>>),
     ig |-> [request |-> <<>>, prefixes |-> <<>>, regular |-> FALSE, context |-> FALSE,
             external |-> FALSE, dependencies |-> <<>>],
     ex |-> [request |-> <<DirR, DirN, DirU>>, prefixes |-> <<>>, regular |-> TRUE,
             context |-> TRUE, external |-> TRUE, dependencies |-> <<>>]]

\* the async call sites __webpack_require__.e(N of a module's text, by the
\* chunk id N each names: m.js and o/i.js ask for chunk 1
EnsureSites(key) == IF key \in {"m", "oi"} THEN <<1>> ELSE <<>>

\* the modules of a build, the entry module first
Programs ==
    {<<"m", "n", "oi", "oj", "ui">>, <<"oi", "oj", "ui">>, <<"uh", "ui">>, <<"oc", "us">>}

\* an ignored or an external module the build may hold as well
Extras == {<<>>, <<"ig">>, <<"ex">>}

\* the bundler numbers the modules from 0 or from 1
IdBases == {0, 1}

ChunkNames == {<<"t">>, <<"e", "x">>}

BundleJs == <<".", "j", "s">>
BundleCss == <<".", "c", "s", "s">>

\* the position of module key in the list
Position(list, key) == CHOOSE i \in 1..Len(list) : list[i] = key

\* the modules of the list that require module key, in list order
Requesters(list, key) ==
    SelectSeq(list, LAMBDA k : \E d \in 1..Len(Graph[k].dependencies) :
                                  Graph[k].dependencies[d] = key)

\* the issuer of a module: the entry module has none; of the others, the
\* module that requested it first, which depends on the order of the build
Issuer(list, key, first) ==
    IF key = list[1] \/ Len(Requesters(list, key)) = 0 THEN NoIssuer
    ELSE IF first THEN Graph[Requesters(list, key)[1]].request
    ELSE Graph[Requesters(list, key)[Len(Requesters(list, key))]].request

\* the module object of key in a build of the modules of list
Module(list, key, base, first) ==
    [key |-> key,
     id |-> Position(list, key) - 1 + base,
     request |-> Graph[key].request,
     prefixes |-> Graph[key].prefixes,
     regular |-> Graph[key].regular,
     context |-> Graph[key].context,
     external |-> Graph[key].external,
     issuer |-> Issuer(list, key, first),
     ensures |-> EnsureSites(key),
     dependencies |-> SelectSeq(Graph[key].dependencies,
                                LAMBDA d : \E i \in 1..Len(list) : list[i] = d)]

\* the chunks: an entry chunk named name with the first split modules and,
\* when modules are left, an unnamed chunk with the rest
Chunks(list, split, name) ==
    IF split >= Len(list)
    THEN <<[id |-> 0, name |-> name, entry |-> TRUE,
            files |-> <<name \o BundleJs, name \o BundleCss>>, modules |-> list]>>
    ELSE <<[id |-> 0, name |-> name, entry |-> TRUE,
            files |-> <<name \o BundleJs, name \o BundleCss>>,
            modules |-> SubSeq(list, 1, split)],
           [id |-> 1, name |-> <<>>, entry |-> FALSE,
            files |-> <<<<"1">> \o BundleJs>>,
            modules |-> SubSeq(list, split + 1, Len(list))]>>

\* the compilation of a build
Compilation(list, split, name, base, first) ==
    [name |-> name,
     modules |-> [key \in {list[i] : i \in 1..Len(list)} |->
                     Module(list, key, base, first)],
     chunks |-> Chunks(list, split, name)]

(***************************************************************************)
(* The emit hook.  The text of a module is the sequence of its call sites  *)
(* __webpack_require__(id), one for each dependency; a rewritten call site *)
(* holds a path instead of the id.  An asset is the sequence of the define *)
(* blocks joined into its text, or a manifest.                             *)
(***************************************************************************)
Ignored == <<"_", "_", "i", "g", "n", "o", "r", "e", "d", "_", "_">>

ManifestSuffix == <<".", "m", "a", "n", "i", "f", "e", "s", "t">>

\* request.split('!')
Parts(mod) == mod.prefixes \o <<mod.request>>

RECURSIVE JoinParts(_, _)
\* names.join('!') from names[i] on
JoinParts(names, i) ==
    IF i >= Len(names) THEN names[i]
    ELSE names[i] \o <<"!">> \o JoinParts(names, i + 1)

\* getDefinePath (lines 251-262)
getDefinePath(mod) ==
    IF ~mod.context THEN Ignored
    ELSE JoinParts([i \in 1..Len(Parts(mod)) |-> getModuleVersionPath(Parts(mod)[i])], 1)

\* lines 282-288: a loader is its own issuer; the issuer of the last part is
\* the one recorded on the required module
SemverParts(mod) ==
    [i \in 1..Len(Parts(mod)) |->
        IF i < Len(Parts(mod))
        THEN getModuleSemverPath(Parts(mod)[i], Parts(mod)[i])
        ELSE getModuleSemverPath(mod.request,
                                 IF mod.issuer # NoIssuer THEN mod.issuer
                                 ELSE mod.request)]

\* the parts joined, or the error of the first part that raised one
Joined(parts) ==
    IF \E i \in 1..Len(parts) : parts[i].err # "none"
    THEN [err |-> parts[CHOOSE i \in 1..Len(parts) :
                            /\ parts[i].err # "none"
                            /\ \A j \in 1..(i - 1) : parts[j].err = "none"].err,
          path |-> <<>>]
    ELSE [err |-> "none", path |-> JoinParts([i \in 1..Len(parts) |-> parts[i].path], 1)]

\* getRequirePath (lines 273-290)
getRequirePath(mod) ==
    IF ~mod.context THEN [err |-> "none", path |-> Ignored]
    ELSE Joined(SemverParts(mod))

\* mod.source().source()
Source(c, mod) ==
    [i \in 1..Len(mod.dependencies) |->
        [rewritten |-> FALSE, id |-> c.modules[mod.dependencies[i]].id, path |-> <<>>]]

\* line 155, source.split(target).join(replacer), r being the require path
Rewritten(source, id, r) ==
    IF r.err # "none" THEN [err |-> r.err, source |-> source]
    ELSE [err |-> "none",
          source |-> [t \in 1..Len(source) |->
                         IF ~source[t].rewritten /\ source[t].id = id
                         THEN [rewritten |-> TRUE, id |-> id, path |-> r.path]
                         ELSE source[t]]]

RECURSIVE ReplaceAll(_, _, _, _)
\* the loop of lines 150-156 from deps[i] on
ReplaceAll(c, deps, i, acc) ==
    IF i > Len(deps) \/ acc.err # "none" THEN acc
    ELSE ReplaceAll(c, deps, i + 1,
                    Rewritten(acc.source, c.modules[deps[i]].id,
                              getRequirePath(c.modules[deps[i]])))

\* lines 202-209: the first file of the chunk with the id, of the last such
\* chunk if several have it, and '' if none has
FileOfChunk(c, chunkId) ==
    IF \E i \in 1..Len(c.chunks) : c.chunks[i].id = chunkId
    THEN c.chunks[CHOOSE i \in 1..Len(c.chunks) :
                     /\ c.chunks[i].id = chunkId
                     /\ \A j \in 1..Len(c.chunks) : c.chunks[j].id = chunkId => j <= i
                 ].files[1]
    ELSE <<>>

\* _handleEnsure (lines 197-215) on the async call sites of a text: each is
\* replaced by __webpack_require__.e('<publicPath><fileName>'
_handleEnsure(c, sites) ==
    [s \in 1..Len(sites) |->
        [rewritten |-> TRUE, chunk |-> sites[s], fileName |-> FileOfChunk(c, sites[s])]]

\* lines 174-181: the define block around the text r.source with the async
\* call sites ensures
DefineBlock(mod, r, ensures) ==
    [err |-> r.err, of |-> mod.key, definePath |-> getDefinePath(mod),
     body |-> r.source, ensures |-> ensures]

\* _parseModule (lines 131-182)
_parseModule(c, mod) ==
    IF mod.regular
    THEN DefineBlock(mod,
                     ReplaceAll(c, mod.dependencies, 1,
                                [err |-> "none", source |-> Source(c, mod)]),
                     _handleEnsure(c, mod.ensures))
    ELSE DefineBlock(mod, [err |-> "none", source |-> Source(c, mod)], <<>>)

\* line 74: dep.id && dep.id !== mod.id
Listed(id, modId) == id # 0 /\ id # modId

\* lines 71-77: the dependencies of a module for the manifest
ManifestDeps(c, mod) ==
    [i \in 1..Len(SelectSeq(mod.dependencies,
                            LAMBDA d : Listed(c.modules[d].id, mod.id))) |->
        getRequirePath(c.modules[SelectSeq(mod.dependencies,
                           LAMBDA d : Listed(c.modules[d].id, mod.id))[i]]).path]

\* lines 67-78: the block is pushed and the manifest entry written
Pushed(c, acc, mod, block) ==
    IF block.err # "none" THEN [acc EXCEPT !.err = block.err]
    ELSE [err |-> "none",
          sources |-> Append(acc.sources, block),
          modules |-> (getDefinePath(mod) :> ManifestDeps(c, mod)) @@ acc.modules]

RECURSIVE EachModule(_, _, _, _)
\* chunk.modules.forEach (lines 59-79) from the i-th module on
EachModule(c, keys, i, acc) ==
    IF i > Len(keys) \/ acc.err # "none" THEN acc
    ELSE IF c.modules[keys[i]].external
    THEN [acc EXCEPT !.err = "ExternalNotAllowed"]
    ELSE EachModule(c, keys, i + 1,
                    Pushed(c, acc, c.modules[keys[i]],
                           _parseModule(c, c.modules[keys[i]])))

\* a bug the hook could have: every chunk is marked as an entry chunk
ManifestAlwaysEntry(c, chunk, modules) ==
    [hasEntry |-> TRUE,
     entry |-> getDefinePath(c.modules[chunk.modules[1]]),
     id |-> chunk.id,
     name |-> IF chunk.name # <<>> THEN chunk.name ELSE chunk.id,
     files |-> chunk.files,
     modules |-> modules]

\* lines 97-105: the manifest of a chunk
Manifest(c, chunk, modules) ==
    [hasEntry |-> chunk.entry,
     entry |-> IF chunk.entry THEN getDefinePath(c.modules[chunk.modules[1]]) ELSE <<>>,
     id |-> chunk.id,
     name |-> IF chunk.name # <<>> THEN chunk.name ELSE chunk.id,
     files |-> chunk.files,
     modules |-> modules]

Asset(kind, code, manifest) == [kind |-> kind, code |-> code, manifest |-> manifest]

\* compilation.assets as the bundler leaves it: its own text for each file
OriginalAssets(c) ==
    [f \in UNION {{c.chunks[i].files[j] : j \in 1..Len(c.chunks[i].files)} :
                    i \in 1..Len(c.chunks)} |->
        Asset("original", <<>>, <<>>)]

\* a bug the hook could have: the manifest is named after the last file
EmittedLast(c, assets, chunk, r) ==
    (chunk.files[Len(chunk.files)] \o ManifestSuffix :>
         Asset("manifest", <<>>, Manifest(c, chunk, r.modules)))
    @@ (chunk.files[1] :> Asset("code", r.sources, <<>>))
    @@ assets

\* lines 81-114: the assets after a chunk whose modules gave r
Emitted(c, assets, chunk, r) ==
    (chunk.files[1] \o ManifestSuffix :>
         Asset("manifest", <<>>, Manifest(c, chunk, r.modules)))
    @@ (chunk.files[1] :> Asset("code", r.sources, <<>>))
    @@ assets

\* a bug the hook could have: the chunk in which a module failed is emitted
\* with the blocks gathered so far
AfterModulesEmitting(c, i, assets, r) ==
    [err |-> r.err, assets |-> Emitted(c, assets, c.chunks[i], r), called |-> FALSE]

RECURSIVE EachChunk(_, _, _)
\* lines 53-114 for a chunk whose modules gave r, and the chunks after it
AfterModules(c, i, assets, r) ==
    IF r.err # "none" THEN [err |-> r.err, assets |-> assets, called |-> FALSE]
    ELSE EachChunk(c, i + 1, Emitted(c, assets, c.chunks[i], r))

\* compilation.chunks.forEach (lines 51-116) from the i-th chunk on, and
\* callback() (line 118)
EachChunk(c, i, assets) ==
    IF i > Len(c.chunks) THEN [err |-> "none", assets |-> assets, called |-> TRUE]
    ELSE AfterModules(c, i, assets,
                      EachModule(c, c.chunks[i].modules, 1,
                                 [err |-> "none", sources |-> <<>>, modules |-> <<>>]))

\* _onEmit (lines 48-120)
_onEmit(c) == EachChunk(c, 1, OriginalAssets(c))

RECURSIVE DefineAll(_, _, _)
\* the text of a chunk run by the page: one define call for each block
DefineAll(registered, code, i) ==
    IF i > Len(code) THEN registered
    ELSE DefineAll(Register(registered, code[i].definePath, code[i]), code, i + 1)

(***************************************************************************)
(* The page runs the build: require of the entry module on the loader the  *)
(* chunks were run on.  A factory is the function of a define block: it    *)
(* executes its call sites __jupyter_require__('path') in turn and then    *)
(* its async call sites __jupyter_require__.e('url', with the function     *)
(* require hands it.  st is the page, the error raised, the calls made.    *)
(***************************************************************************)
\* loader.ts:64: the third argument of a factory is this.require.bind(this),
\* a new function object at each call of require; the property e, which the
\* constructor assigns to this.require (line 20), is not a property of it
BoundRequire == [bound |-> TRUE, stable |-> FALSE, e |-> FALSE]

RECURSIVE require(_, _, _)
RECURSIVE RunFactory(_, _, _)

\* lines 66-70: the factory has returned
FactoryReturned(st, id) ==
    IF st.err = "none"
    THEN [st EXCEPT !.pg.loaders[1]._modules[id].loaded = TRUE]
    ELSE st

\* lines 49-64 of require(path) called for the call site of module dep, r
\* being the answer of _findModuleId
RequireFound(st, dep, path, r) ==
    IF r.err # "none"
    THEN [st EXCEPT !.pg.loaders[1]._parsed = r.parsed,
                    !.err = r.err,
                    !.log = Append(@, [kind |-> "require", dep |-> dep, path |-> path,
                                       err |-> r.err, id |-> r.id])]
    ELSE IF IsInstalled(st.pg.loaders[1]._modules, r.id)
    THEN [st EXCEPT !.pg.loaders[1]._parsed = r.parsed,
                    !.pg.loaders[1]._lookupCache = r.cache,
                    !.log = Append(@, [kind |-> "require", dep |-> dep, path |-> path,
                                       err |-> r.err, id |-> r.id])]
    ELSE FactoryReturned(
             RunFactory([st EXCEPT
                            !.pg.loaders[1]._parsed = r.parsed,
                            !.pg.loaders[1]._lookupCache = r.cache,
                            !.pg.loaders[1]._modules = (r.id :> [loaded |-> FALSE]) @@ @,
                            !.log = Append(@, [kind |-> "require", dep |-> dep,
                                               path |-> path, err |-> r.err,
                                               id |-> r.id])],
                        Callback(st.pg.loaders[1]._registered, r.id), 1),
             r.id)

\* require(path), called by the page (dep = -1) or by a call site
require(st, dep, path) ==
    RequireFound(st, dep, path,
                 _findModuleId(path, st.pg.loaders[1]._registered,
                               st.pg.loaders[1]._lookupCache, st.pg.loaders[1]._parsed))

\* __jupyter_require__('path'); a call site left with a number would make
\* _parsePath call match on a number
CallSite(st, site) ==
    IF site.rewritten THEN require(st, site.id, site.path)
    ELSE [st EXCEPT !.err = "TypeError"]

\* __jupyter_require__.e('url', ...): a call of ensureBundle if the function
\* has the property e, the TypeError of calling undefined if not
AsyncSite(st, site) ==
    IF BoundRequire.e
    THEN [st EXCEPT !.pg = ensureBundle(@, 1, 1, site.fileName, CbPlain),
                    !.log = Append(@, [kind |-> "ensure", url |-> site.fileName,
                                       outcome |-> "ensureBundle"])]
    ELSE [st EXCEPT !.err = "TypeError",
                    !.log = Append(@, [kind |-> "ensure", url |-> site.fileName,
                                       outcome |-> "TypeError"])]

\* the function of a define block from its i-th call on
RunFactory(st, block, i) ==
    IF st.err # "none" \/ i > Len(block.body) + Len(block.ensures) THEN st
    ELSE IF i <= Len(block.body)
    THEN RunFactory(CallSite(st, block.body[i]), block, i + 1)
    ELSE RunFactory(AsyncSite(st, block.ensures[i - Len(block.body)]), block, i + 1)

\* what buildExtension returns (builder.ts:47-119): the function has no
\* return statement, and compiler.run (line 106) only starts the compilation
buildExtension == "undefined"

\* buildExtension (builder.ts:47-61) and the bundler: the entry chunk is
\* named after the extension
Build(list, split, name, base, first) ==
    /\ phase = "idle"
    /\ phase' = "compiled"
    /\ compilation' = Compilation(list, split, name, base, first)
    /\ built' = [returned |-> buildExtension, then |-> "none"]
    /\ UNCHANGED <<registryVars, bundleVars, stack, pageVars, entryVars, codecVars, probeVars, emit, ran, run>>

\* the bundler reaches its emit phase: the hook runs
OnEmit ==
    /\ phase = "compiled"
    /\ phase' = "emitted"
    /\ emit' = _onEmit(compilation)
    /\ UNCHANGED <<registryVars, bundleVars, stack, pageVars, entryVars, codecVars, probeVars, compilation, ran,
                   built, run>>

\* the page runs an emitted chunk file on the loader named by the rewriter
RunChunk(file) ==
    /\ phase = "emitted"
    /\ emit.called
    /\ file \notin ran
    /\ emit.assets[file].kind = "code"
    /\ ran' = ran \cup {file}
    /\ loaders' = [loaders EXCEPT ![1]._registered =
                      DefineAll(@, emit.assets[file].code, 1)]
    /\ actor' = 1
    /\ UNCHANGED <<registryVars, bundleVars, stack, entryVars, codecVars, probeVars, requireE, pageScripts,
                   nPageOps, lastOp, built, run,
                   phase, compilation, emit>>

\* the caller attaches a continuation to the value buildExtension returned,
\* as test-builder.js:7-11 does: reading then of undefined throws
Then ==
    /\ built.returned # "none"
    /\ built.then = "none"
    /\ built' = [built EXCEPT !.then = IF built.returned = "promise"
                                      THEN "attached" ELSE "TypeError"]
    /\ UNCHANGED <<registryVars, bundleVars, stack, pageVars, entryVars, codecVars,
                   probeVars, phase, compilation, emit, ran, run>>

\* every chunk file having run, the page requires the entry module the
\* manifest of the entry chunk names
RunEntry ==
    /\ phase = "emitted"
    /\ emit.called
    /\ emit.err = "none"
    /\ ran = {f \in DOMAIN emit.assets : emit.assets[f].kind = "code"}
    /\ ~run.called
    /\ \E st \in {require([pg |-> Page(loaders, pageScripts), err |-> "none", log |-> <<>>],
                           -1, getDefinePath(compilation.modules[
                                                compilation.chunks[1].modules[1]]))} :
          /\ loaders' = st.pg.loaders
          /\ pageScripts' = st.pg.scripts
          /\ run' = [called |-> TRUE, err |-> st.err, log |-> st.log]
    /\ actor' = 1
    /\ lastOp' = "require"
    /\ UNCHANGED <<registryVars, bundleVars, stack, entryVars, codecVars, probeVars,
                   requireE, nPageOps, phase, compilation, emit, ran, built>>

NextPlugin ==
    \/ \E list \in Programs, extra \in Extras, name \in ChunkNames,
          base \in IdBases, first \in BOOLEAN :
          \E split \in {1, 2, Len(list \o extra)} :
              Build(list \o extra, split, name, base, first)
    \/ OnEmit
    \/ \E file \in DOMAIN emit.assets : RunChunk(file)
    \/ RunEntry
    \/ Then

SpecPlugin == Init /\ [][NextPlugin]_vars

(***************************************************************************)
(* What the claims speak of.                                               *)
(***************************************************************************)
ResolutionErrors == {"BadPath", "NoMatch", "NoSatisfying"}

\* the registered paths that share the (package, module) of a request
Candidates(path) ==
    {id \in {_registered[i].path : i \in 1..Len(_registered)} :
        /\ PathRegex(path).ok
        /\ PathRegex(id).ok
        /\ PathRegex(id).package = PathRegex(path).package
        /\ PathRegex(id).module = PathRegex(path).module}

\* the candidates whose version satisfies the range of the request
Satisfying(path) ==
    {id \in Candidates(path) : Satisfies(PathRegex(id).version, PathRegex(path).version)}

\* the satisfying candidates of the greatest version
Greatest(path) ==
    {id \in Satisfying(path) :
        \A other \in Satisfying(path) :
            Compare(SemVer(PathRegex(id).version), SemVer(PathRegex(other).version)) >= 0}

\* the number of objects a module's factory has assigned to module.exports
Replaced(id) == Count(created, id) - Len(invoked[id])

\* the frames of the stack that execute the factory of module id
FramesOf(id) == {i \in 1..Len(stack) : stack[i].kind = "factory" /\ stack[i].id = id}

(***************************************************************************)
(* C1.  After any sequence of define and require calls, require of         *)
(* pkg@R/sub resolves to the registered module of (pkg, sub) whose version *)
(* is the greatest among the versions registered at the time of the call   *)
(* that satisfy R.  (The registry has not changed since the resolution     *)
(* recorded in `resolved`: define resets it.)                              *)
(***************************************************************************)
C1_SemverMaximality ==
    resolved.err = "none" => resolved.id \in Greatest(resolved.path)

(***************************************************************************)
(* C2.  Whenever some registered module shares the request's (pkg, sub)    *)
(* but none satisfies the requested range, require fails with NoSatisfying *)
(* and instantiates nothing, for any number of candidates, one included.   *)
(***************************************************************************)
C2_NoSatisfying ==
    (/\ resolved.err # "init"
     /\ Candidates(resolved.path) # {}
     /\ Satisfying(resolved.path) = {})
    => resolved.err = "NoSatisfying"

(***************************************************************************)
(* C3.  The factory registered for a path is the one passed to the first   *)
(* define of that path; later defines of the path change nothing; and that *)
(* first factory is invoked exactly once however many require calls        *)
(* resolve to the path.                                                    *)
(***************************************************************************)
C3_DefineIdempotence ==
    /\ {_registered[i].path : i \in 1..Len(_registered)} = DOMAIN firstDefined
    /\ \A i \in 1..Len(_registered) :
          _registered[i].callback = firstDefined[_registered[i].path].callback
    /\ DOMAIN invoked = DOMAIN _modules
    /\ \A id \in DOMAIN invoked :
          /\ Len(invoked[id]) = 1
          /\ invoked[id][1].callback = firstDefined[id].callback
    /\ \A e \in returned : e.id \in DOMAIN invoked

\* a path was defined a second time with another factory, two different
\* requests have since returned its module, and its factory ran once
C3_Witness ==
    \E e1, e2 \in returned :
        /\ e1.path # e2.path
        /\ e1.id = e2.id
        /\ firstDefined[e1.id].again
        /\ Len(invoked[e1.id]) = 1
        /\ stack = <<>>

C6_FailureLeavesNoTrace ==
    /\ [][resolved'.err \in ResolutionErrors =>
             UNCHANGED <<_registered, _modules, _lookupCache>>]_vars
    /\ [](resolved.err \in ResolutionErrors => Satisfying(resolved.path) = {})

\* a request that failed with NoSatisfying has been resolved, and its module
\* returned, after a satisfying module had been defined
C6_Witness ==
    /\ resolved.err = "none"
    /\ resolved.path \in failed
    /\ resolved.id \in Satisfying(resolved.path)
    /\ Cardinality(Candidates(resolved.path)) > 2
    /\ \E e \in returned : e.path = resolved.path /\ e.id = resolved.id
    /\ _lookupCache[resolved.path] = resolved.id

(***************************************************************************)
(* C7.  If the factory of A requires B and the factory of B requires A,    *)
(* require(A) terminates: the record of A is in the table of module        *)
(* records while its factory executes, the inner require(A) returns the    *)
(* exports of that record without invoking the factory again, and each     *)
(* factory runs exactly once.  (The stack holds each module at most once,  *)
(* so it is never deeper than the number of module records.)               *)
(***************************************************************************)
C7_CycleTolerance ==
    /\ \A i \in 1..Len(stack) :
          stack[i].kind = "factory" =>
             /\ stack[i].id \in DOMAIN _modules
             /\ ~_modules[stack[i].id].loaded
             /\ Cardinality(FramesOf(stack[i].id)) = 1
    /\ Len(stack) <= Cardinality(DOMAIN _modules)
    /\ \A id \in DOMAIN invoked : Len(invoked[id]) = 1
    /\ \A e \in returned : e.during => e.exports.of = e.id

\* two modules that require each other are both loaded, each factory ran
\* once, and the inner require returned while both factories were executing
C7_Witness ==
    /\ stack = <<>>
    /\ \E e \in returned :
          /\ e.during
          /\ e.id = A100
          /\ e.path = ReqA1
    /\ A100 \in DOMAIN _modules /\ _modules[A100].loaded
    /\ B100m \in DOMAIN _modules /\ _modules[B100m].loaded
    /\ Len(invoked[A100]) = 1 /\ invoked[A100][1].callback = FCycleA
    /\ Len(invoked[B100m]) = 1 /\ invoked[B100m][1].callback = FCycleB

\* the script elements injected for a url
ScriptsFor(url) == {i \in 1..Len(scripts) : scripts[i].src = url}

\* the ensureBundle calls made for a url
CallsFor(url) == {k \in 1..Len(calls) : calls[k].url = url}

\* the invocations of the callback passed to the k-th ensureBundle call
InvocationsOf(k) == {j \in 1..Len(cbLog) : cbLog[j].call = k}

(***************************************************************************)
(* C8.  Over any sequence of ensureBundle calls and script load and error  *)
(* events, at most one script element is ever injected per URL: calls made *)
(* while the bundle is pending, after it has loaded and after it has       *)
(* failed all reuse the one bundle record.                                 *)
(***************************************************************************)
C8_OneScriptPerUrl ==
    /\ \A url \in Urls : Cardinality(ScriptsFor(url)) <= 1
    /\ \A url \in Urls : ScriptsFor(url) # {} <=> url \in DOMAIN _bundles
    /\ \A k \in 1..Len(calls) :
          calls[k].injected => \A j \in 1..(k - 1) : calls[j].url # calls[k].url

\* one url was asked for again while pending and has loaded, another was
\* asked for again after it had failed, and each has one script
C8_Witness ==
    \E u1, u2 \in Urls :
        /\ \E k \in CallsFor(u1) : calls[k].at = "pending"
        /\ BundleState(u1) = "loaded"
        /\ \E k \in CallsFor(u2) : calls[k].at = "failed"
        /\ Cardinality(ScriptsFor(u1)) = 1
        /\ Cardinality(ScriptsFor(u2)) = 1

(***************************************************************************)
(* C9.  When the script of a bundle fires load, the callbacks passed to    *)
(* ensureBundle for its URL while it was pending are invoked in the order  *)
(* they were passed, each exactly once, all before the completion promise  *)
(* resolves; and the promise then resolves.  (stack = <<>>: the onload     *)
(* handler has come to its end.)                                           *)
(***************************************************************************)
C9_LoadDrainsInOrder ==
    \A i \in 1..Len(scripts) :
        (scripts[i].state = "load" /\ stack = <<>>) =>
            /\ _bundles[scripts[i].src].promise = "resolved"
            /\ \A k \in CallsFor(scripts[i].src) :
                  (calls[k].at \in {"new", "pending"} /\ calls[k].callback.given) =>
                      /\ Cardinality(InvocationsOf(k)) = 1
                      /\ \A j \in InvocationsOf(k) : cbLog[j].promise = "pending"
            /\ \A j1, j2 \in 1..Len(cbLog) :
                  (/\ j1 < j2
                   /\ cbLog[j1].url = scripts[i].src
                   /\ cbLog[j2].url = scripts[i].src
                   /\ cbLog[j1].promise = "pending"
                   /\ cbLog[j2].promise = "pending")
                  => cbLog[j1].call < cbLog[j2].call

GivenFor(url) == {k \in CallsFor(url) : calls[k].callback.given}

(***************************************************************************)
(* C11.  When the script of a bundle fires error, the record is failed     *)
(* (its promise is rejected and it is never flagged loaded), and no        *)
(* callback passed to ensureBundle for its URL, before or after the error, *)
(* is ever invoked: each stays in the callbacks of the record.             *)
(***************************************************************************)
C11_ErrorDropsWaiters ==
    \A i \in 1..Len(scripts) :
        scripts[i].state = "error" =>
            /\ BundleState(scripts[i].src) = "failed"
            /\ _bundles[scripts[i].src].promise = "rejected"
            /\ ~_bundles[scripts[i].src].loaded
            /\ \A j \in 1..Len(cbLog) : cbLog[j].url # scripts[i].src
            /\ \A k \in GivenFor(scripts[i].src) :
                  /\ InvocationsOf(k) = {}
                  /\ calls[k].queued
                  /\ \E w \in 1..Len(_bundles[scripts[i].src].callbacks) :
                        _bundles[scripts[i].src].callbacks[w].call = k

\* a url failed with a callback passed before the error and one passed after
\* it, and another url has loaded and called its callback since
C11_Witness ==
    \E i \in 1..Len(scripts) :
        /\ scripts[i].state = "error"
        /\ \E k \in GivenFor(scripts[i].src) : calls[k].at \in {"new", "pending"}
        /\ \E k \in GivenFor(scripts[i].src) : calls[k].at = "failed"
        /\ \E j \in 1..Len(cbLog) : cbLog[j].url # scripts[i].src
        /\ stack = <<>>

(***************************************************************************)
(* C12.  After the script of a URL has fired error, every later            *)
(* ensureBundle call for the URL returns the promise of the record, the    *)
(* rejected promise the first call returned; it creates no record and      *)
(* injects no script.                                                      *)
(***************************************************************************)
C12_FailedStaysFailed ==
    \A k \in 1..Len(calls) :
        calls[k].at = "failed" =>
            /\ calls[k].ret = "bundle"
            /\ ~calls[k].injected
            /\ _bundles[calls[k].url].promise = "rejected"
            /\ Cardinality(ScriptsFor(calls[k].url)) = 1
            /\ \A i \in ScriptsFor(calls[k].url) : scripts[i].state = "error"
            /\ \E first \in CallsFor(calls[k].url) :
                  /\ first < k
                  /\ calls[first].injected
                  /\ calls[first].ret = "bundle"
                  /\ \A j \in CallsFor(calls[k].url) : first <= j

\* a failed url was asked for twice more after the error
C12_Witness ==
    \E k1, k2 \in 1..Len(calls) :
        /\ k1 < k2
        /\ calls[k1].url = calls[k2].url
        /\ calls[k1].at = "failed"
        /\ calls[k2].at = "failed"
        /\ stack = <<>>

(***************************************************************************)
(* C13.  With two instances in one page, no define, require or             *)
(* ensureBundle performed on one instance, nor anything done through the   *)
(* require function that instance hands to its factories and callbacks     *)
(* (its property e included), changes the registered factories, module     *)
(* records, lookup cache or bundle records of the other instance.          *)
(***************************************************************************)
C13_InstanceIsolation ==
    [][\A other \in 1..Len(loaders) :
          other # actor' =>
              /\ loaders'[other]._registered = loaders[other]._registered
              /\ loaders'[other]._modules = loaders[other]._modules
              /\ loaders'[other]._lookupCache = loaders[other]._lookupCache
              /\ loaders'[other]._bundles = loaders[other]._bundles]_vars

\* is the path of the form pkg@exactVersion[/sub]
Canonical(path) == PathRegex(path).ok /\ ValidVersion(PathRegex(path).version)

\* the emit hook has run to its end on the compilation
HookDone == phase = "emitted" /\ emit.called

\* the chunks of the compilation
ChunkIds == 1..Len(compilation.chunks)

\* the text the hook gave to the first file of the i-th chunk
CodeOf(i) == emit.assets[compilation.chunks[i].files[1]].code

\* the manifest the hook emitted beside the first file of the i-th chunk
ManifestOf(i) ==
    emit.assets[compilation.chunks[i].files[1] \o ManifestSuffix].manifest

\* the j-th module of the i-th chunk
ModuleAt(i, j) == compilation.modules[compilation.chunks[i].modules[j]]

\* the d-th dependency of the j-th module of the i-th chunk
DependencyAt(i, j, d) == compilation.modules[ModuleAt(i, j).dependencies[d]]

\* the positions (chunk, module, dependency) of the call sites of the build
CallSites ==
    {s \in ChunkIds \X (1..6) \X (1..3) :
        /\ s[2] <= Len(compilation.chunks[s[1]].modules)
        /\ s[3] <= Len(ModuleAt(s[1], s[2]).dependencies)}

(***************************************************************************)
(* C14.  Every key of the registered factories of a loader is a canonical  *)
(* versioned path pkg@exactVersion[/sub] that parses under the path        *)
(* grammar, the paths registered by the define calls of an emitted chunk   *)
(* included.                                                               *)
(***************************************************************************)
C14_CanonicalKeys ==
    \A inst \in 1..Len(loaders) :
        \A i \in 1..Len(loaders[inst]._registered) :
            Canonical(loaders[inst]._registered[i].path)

(***************************************************************************)
(* C15.  In the rewritten body of a regular module M, the call site of     *)
(* each dependency D carries the semver path of D with M as the issuer:    *)
(* the range is the one the package of M declares for the package of D.    *)
(***************************************************************************)
C15_IssuerIsRewrittenModule ==
    HookDone =>
        \A s \in CallSites :
            (ModuleAt(s[1], s[2]).regular /\ DependencyAt(s[1], s[2], s[3]).context) =>
                /\ CodeOf(s[1])[s[2]].body[s[3]].rewritten
                /\ CodeOf(s[1])[s[2]].body[s[3]].path =
                      getModuleSemverPath(DependencyAt(s[1], s[2], s[3]).request,
                                          ModuleAt(s[1], s[2]).request).path

(***************************************************************************)
(* C16.  Whenever a module and its dependency lie in the same package, the *)
(* hook emits for the call site the path pkg@~version/sub with the exact   *)
(* version of that package, whatever the descriptor of the package         *)
(* declares.  (A build with an external module is refused as a whole.)     *)
(***************************************************************************)
C16_SelfRange ==
    (phase = "emitted" /\ emit.err # "ExternalNotAllowed") =>
        \A s \in CallSites :
            (/\ ModuleAt(s[1], s[2]).regular
             /\ DependencyAt(s[1], s[2], s[3]).context
             /\ getPackage(ModuleAt(s[1], s[2]).request).name =
                   getPackage(DependencyAt(s[1], s[2], s[3]).request).name)
            => /\ emit.called
               /\ CodeOf(s[1])[s[2]].body[s[3]].path =
                     WithModPath(
                         getPackage(DependencyAt(s[1], s[2], s[3]).request).name
                             \o <<"@", "~">>
                             \o getPackage(DependencyAt(s[1], s[2], s[3]).request).version,
                         Below(DependencyAt(s[1], s[2], s[3]).request,
                               findRoot(DependencyAt(s[1], s[2], s[3]).request).dir))

(***************************************************************************)
(* C17.  For every chunk, the text of its first file is replaced by the    *)
(* define blocks of the modules of the chunk, one block for each module,   *)
(* in the order of the chunk, each registering its module under the        *)
(* exact-version path of the module.                                       *)
(***************************************************************************)
C17_AssetIsConcatenation ==
    HookDone =>
        \A i \in ChunkIds :
            /\ emit.assets[compilation.chunks[i].files[1]].kind = "code"
            /\ Len(CodeOf(i)) = Len(compilation.chunks[i].modules)
            /\ \A j \in 1..Len(CodeOf(i)) :
                  /\ CodeOf(i)[j].of = compilation.chunks[i].modules[j]
                  /\ Canonical(CodeOf(i)[j].definePath)
                  /\ ModuleAt(i, j).context =>
                        CodeOf(i)[j].definePath =
                            getModuleVersionPath(ModuleAt(i, j).request)

(***************************************************************************)
(* C18.  For every module M of a chunk, the modules map of the manifest    *)
(* has the define path of M as a key, and its value lists, in order, the   *)
(* require paths that the rewritten body of M carries for the dependencies *)
(* of M other than M itself, whatever the ids of the dependencies.         *)
(***************************************************************************)
C18_ManifestDependencies ==
    HookDone =>
        \A i \in ChunkIds :
            \A j \in 1..Len(compilation.chunks[i].modules) :
                /\ CodeOf(i)[j].definePath \in DOMAIN ManifestOf(i).modules
                /\ ModuleAt(i, j).regular =>
                      ManifestOf(i).modules[CodeOf(i)[j].definePath] =
                          [k \in 1..Len(SelectSeq(CodeOf(i)[j].body,
                                   LAMBDA site : site.id # ModuleAt(i, j).id)) |->
                              SelectSeq(CodeOf(i)[j].body,
                                   LAMBDA site : site.id # ModuleAt(i, j).id)[k].path]

(***************************************************************************)
(* C19.  The manifest of a chunk has an entry field if and only if the     *)
(* chunk is an entry chunk, and then the entry is the define path of the   *)
(* first module of the chunk, which is a key of the modules map of the     *)
(* same manifest and the path registered by the first define block of the  *)
(* text of the chunk.                                                      *)
(***************************************************************************)
C19_EntryMarker ==
    HookDone =>
        \A i \in ChunkIds :
            /\ ManifestOf(i).hasEntry <=> compilation.chunks[i].entry
            /\ compilation.chunks[i].entry =>
                  /\ ManifestOf(i).entry = getDefinePath(ModuleAt(i, 1))
                  /\ ManifestOf(i).entry \in DOMAIN ManifestOf(i).modules
                  /\ ManifestOf(i).entry = CodeOf(i)[1].definePath

\* the hook has run on a build with an entry chunk and a chunk that is none
C19_Witness ==
    /\ HookDone
    /\ Len(compilation.chunks) = 2
    /\ ManifestOf(1).hasEntry
    /\ ~ManifestOf(2).hasEntry
    /\ Len(CodeOf(1)) > 1

\* the manifests among the assets
Manifests == {f \in DOMAIN emit.assets : emit.assets[f].kind = "manifest"}

(***************************************************************************)
(* C20.  For every chunk the hook emits one manifest, named after the      *)
(* first file of the chunk with the suffix .manifest, whose name is the    *)
(* name of the chunk (its id when the chunk has no name) and whose files   *)
(* are all the files of the chunk; the manifest of the entry chunk of an   *)
(* extension built under the name n has the name n.                        *)
(***************************************************************************)
C20_OneManifestPerChunk ==
    HookDone =>
        /\ Cardinality(Manifests) = Len(compilation.chunks)
        /\ Manifests = {compilation.chunks[i].files[1] \o ManifestSuffix : i \in ChunkIds}
        /\ \A i \in ChunkIds :
              /\ ManifestOf(i).files = compilation.chunks[i].files
              /\ ManifestOf(i).id = compilation.chunks[i].id
              /\ ManifestOf(i).name = IF compilation.chunks[i].name # <<>>
                                      THEN compilation.chunks[i].name
                                      ELSE compilation.chunks[i].id
              /\ compilation.chunks[i].entry => ManifestOf(i).name = compilation.name

\* the hook has run on a build of two chunks, one named and one not, the
\* first with two files
C20_Witness ==
    /\ HookDone
    /\ Len(compilation.chunks) = 2
    /\ compilation.chunks[2].name = <<>>
    /\ ManifestOf(2).name = 1
    /\ ManifestOf(1).name = <<"e", "x">>
    /\ Len(ManifestOf(1).files) = 2

\* the chunks of the build that hold an external module
ExternalChunks ==
    {i \in ChunkIds : \E j \in 1..Len(compilation.chunks[i].modules) :
                          ModuleAt(i, j).external}

(***************************************************************************)
(* C21.  If a module of a chunk is flagged external, the emit hook ends    *)
(* with an error and does not call its completion callback, and the first  *)
(* file of that chunk keeps the bundler's text and has no manifest.        *)
(***************************************************************************)
C21_ExternalFails ==
    (phase = "emitted" /\ ExternalChunks # {}) =>
        /\ emit.err # "none"
        /\ ~emit.called
        /\ \A i \in ExternalChunks :
              /\ emit.assets[compilation.chunks[i].files[1]].kind = "original"
              /\ compilation.chunks[i].files[1] \o ManifestSuffix \notin DOMAIN emit.assets

\* the hook has met an external module in the second chunk, after it has
\* rewritten the first
C21_Witness ==
    /\ phase = "emitted"
    /\ ExternalChunks = {2}
    /\ emit.err = "ExternalNotAllowed"
    /\ emit.assets[compilation.chunks[1].files[1]].kind = "code"
    /\ Len(compilation.chunks[2].modules) > 1

\* the ids of the chunks of the build
KnownChunks == {compilation.chunks[i].id : i \in ChunkIds}

\* the modules of the build whose text has an async call site that names a
\* chunk id no chunk has
Unresolvable ==
    {k \in DOMAIN compilation.modules :
        /\ compilation.modules[k].regular
        /\ \E s \in 1..Len(compilation.modules[k].ensures) :
              compilation.modules[k].ensures[s] \notin KnownChunks}

\* the files whose text the hook has replaced
CodeFiles == {f \in DOMAIN emit.assets : emit.assets[f].kind = "code"}

(***************************************************************************)
(* C22.  If the text of a module has an async call site whose chunk id     *)
(* matches no chunk of the compilation, the hook fails (the build is       *)
(* aborted) and no emitted text holds a rewritten form of that call site.  *)
(***************************************************************************)
C22_UnknownChunkFails ==
    (phase = "emitted" /\ Unresolvable # {}) =>
        /\ emit.err # "none"
        /\ ~emit.called
        /\ \A f \in CodeFiles :
              \A b \in 1..Len(emit.assets[f].code) :
                  \A s \in 1..Len(emit.assets[f].code[b].ensures) :
                      emit.assets[f].code[b].ensures[s].chunk \in KnownChunks

(***************************************************************************)
(* The entry point of an extension (validate.ts; extractPlugins is         *)
(* unnamed/part_000).  A value is undefined, an array of values, or an     *)
(* object, of which the functions read: __esModule, default, whether it    *)
(* has an id of its own or through its prototype, and the type of its      *)
(* activate.                                                               *)
(***************************************************************************)
Undefined == [kind |-> "undefined"]

Object(esModule, default, ownId, protoId, activate) ==
    [kind |-> "object", esModule |-> esModule, default |-> default,
     ownId |-> ownId, protoId |-> protoId, activate |-> activate]

Array(items) == [kind |-> "array", items |-> items]

\* the plain objects an entry point may export
Plugins ==
    {Object(FALSE, Undefined, ownId, protoId, activate) :
        ownId \in BOOLEAN, protoId \in BOOLEAN,
        activate \in {"function", "string", "undefined"}}

\* the values the arrays are made of: a plugin, an object whose id is its
\* prototype's, an object with no activate, undefined
Items ==
    {Object(FALSE, Undefined, TRUE, FALSE, "function"),
     Object(FALSE, Undefined, FALSE, TRUE, "function"),
     Object(FALSE, Undefined, TRUE, FALSE, "undefined"),
     Undefined}

Arrays ==
    {Array(<<>>)} \cup {Array(<<x>>) : x \in Items}
        \cup {Array(<<x, y>>) : x \in Items, y \in Items}

\* the modules compiled from ES6: __esModule is set and the export is the
\* default field; the module object itself may look like a plugin or not
EsModules ==
    {Object(TRUE, default, ownId, FALSE, IF ownId THEN "function" ELSE "undefined") :
        default \in Plugins \cup Arrays \cup {Undefined}, ownId \in BOOLEAN}

EntryData == Plugins \cup Arrays \cup EsModules \cup {Undefined}

\* lines 13-15: reading __esModule of undefined throws; an array has none
Unwrap(data) ==
    IF data.kind = "undefined" THEN [err |-> "TypeError", data |-> data]
    ELSE IF data.kind = "object" /\ data.esModule
    THEN [err |-> "none", data |-> data.default]
    ELSE [err |-> "none", data |-> data]

\* lines 16-18
AsList(data) == IF data.kind = "array" THEN data.items ELSE <<data>>

\* a bug the check could have: an inherited id is taken too
HasProperty(plugin) == plugin.ownId \/ plugin.protoId

\* line 24: plugin.hasOwnProperty('id')
HasOwnProperty(plugin) == plugin.ownId

\* lines 23-30 for one element; a method call on undefined throws
CheckPlugin(plugin) ==
    IF plugin.kind = "undefined" THEN "TypeError"
    ELSE IF plugin.kind = "array" THEN "MissingId"
    ELSE IF ~HasOwnProperty(plugin) THEN "MissingId"
    ELSE IF plugin.activate # "function" THEN "MissingActivate"
    ELSE "none"

RECURSIVE CheckAll(_, _)
\* the loop of lines 22-31 from data[i] on
CheckAll(list, i) ==
    IF i > Len(list) THEN "none"
    ELSE IF CheckPlugin(list[i]) # "none" THEN CheckPlugin(list[i])
    ELSE CheckAll(list, i + 1)

\* lines 16-31 on the unwrapped value u
Checked(u) ==
    IF u.err # "none" THEN u.err
    ELSE IF Len(AsList(u.data)) = 0 THEN "NoPlugins"
    ELSE CheckAll(AsList(u.data), 1)

\* validateEntry (validate.ts:11-32): returns nothing
validateEntry(data) == [err |-> Checked(Unwrap(data)), value |-> <<>>]

\* extractPlugins (part_000:24-46): returns the list
extractPlugins(data) ==
    [err |-> Checked(Unwrap(data)),
     value |-> IF Checked(Unwrap(data)) = "none" THEN AsList(Unwrap(data).data) ELSE <<>>]

ValidateEntry(data) ==
    /\ validated' = [fn |-> "validateEntry", data |-> data,
                     outcome |-> validateEntry(data)]
    /\ UNCHANGED <<registryVars, bundleVars, stack, pageVars, pluginVars, codecVars,
                   probeVars>>

ExtractPlugins(data) ==
    /\ validated' = [fn |-> "extractPlugins", data |-> data,
                     outcome |-> extractPlugins(data)]
    /\ UNCHANGED <<registryVars, bundleVars, stack, pageVars, pluginVars, codecVars,
                   probeVars>>

NextEntry ==
    \/ \E data \in EntryData : ValidateEntry(data)
    \/ \E data \in EntryData : ExtractPlugins(data)

SpecEntry == Init /\ [][NextEntry]_vars

\* the list the functions are to check: the default field of an
\* __esModule-flagged value, else the value; as it is if an array, else as
\* the one element of a list
ListOf(data) ==
    IF data.kind = "object" /\ data.esModule
    THEN (IF data.default.kind = "array" THEN data.default.items ELSE <<data.default>>)
    ELSE (IF data.kind = "array" THEN data.items ELSE <<data>>)

\* the value is an object with an id of its own and a function as activate
IsPlugin(x) == x.kind = "object" /\ x.ownId /\ x.activate = "function"

(***************************************************************************)
(* C23.  validateEntry and extractPlugins succeed if and only if the list  *)
(* got from the value (its default field if it is flagged __esModule, a    *)
(* non-array taken as a list of one) is non-empty and every element has an *)
(* id of its own and a function as activate; otherwise they raise an       *)
(* error; extractPlugins, when it succeeds, returns that list.             *)
(***************************************************************************)
C23_EntryValidation ==
    validated.fn # "none" =>
        /\ validated.outcome.err = "none" <=>
              /\ validated.data.kind # "undefined"
              /\ Len(ListOf(validated.data)) > 0
              /\ \A i \in 1..Len(ListOf(validated.data)) :
                    IsPlugin(ListOf(validated.data)[i])
        /\ (validated.fn = "extractPlugins" /\ validated.outcome.err = "none") =>
              validated.outcome.value = ListOf(validated.data)

\* extractPlugins has returned the two plugins of the default export of an
\* ES6 module that is no plugin itself
C23_Witness ==
    /\ validated.fn = "extractPlugins"
    /\ validated.data.kind = "object"
    /\ validated.data.esModule
    /\ ~validated.data.ownId
    /\ validated.outcome.err = "none"
    /\ Len(validated.outcome.value) = 2

(***************************************************************************)
(* The path parser on the strings over a small alphabet: a letter, "@",    *)
(* "/" and the newline, which "." does not match.                          *)
(***************************************************************************)
MaxPathLen == 7

Alphabet == {"a", "@", "/", "\n"}

ScopedExample ==
    <<"@", "s", "c", "o", "p", "e", "/", "p", "k", "g", "@", "1", ".", "0", ".", "0",
      "/", "l", "i", "b", "/", "x", ".", "j", "s">>

PathStrings ==
    UNION {[1..n -> Alphabet] : n \in 0..MaxPathLen} \cup {ScopedExample}

\* this._parsePath(path), for some string, on a loader that has parsed
\* nothing yet
ParsePath ==
    /\ parsedPath.memo = <<>>
    /\ \E path \in PathStrings :
          parsedPath' = [path |-> path, memo |-> _parsePath(path, <<>>)]
    /\ UNCHANGED <<registryVars, bundleVars, stack, pageVars, pluginVars, entryVars,
                   probeVars>>

NextCodec == ParsePath

SpecCodec == Init /\ [][NextCodec]_vars

\* a name segment: not empty, without "/" and "@"
IsSegment(x) == Len(x) > 0 /\ \A i \in 1..Len(x) : x[i] \notin {"/", "@"}

\* a bare name or @scope/name
IsPackageName(x) ==
    \/ IsSegment(x)
    \/ \E k \in 3..Len(x) :
          /\ x[1] = "@"
          /\ x[k] = "/"
          /\ \A i \in 2..(k - 1) : x[i] # "/"
          /\ IsSegment(SubSeq(x, k + 1, Len(x)))

\* the versioned-path grammar ^(@[^/]+/)?[^/@]+@[^/]+(/.*)?$ : the string is
\* a package name, "@", a version and a tail
InGrammar(x) ==
    \E a \in 1..Len(x), v \in 1..Len(x) :
        /\ a < v
        /\ x[a] = "@"
        /\ IsPackageName(SubSeq(x, 1, a - 1))
        /\ \A i \in (a + 1)..v : x[i] # "/"
        /\ v = Len(x) \/ (x[v + 1] = "/" /\ \A i \in (v + 1)..Len(x) : x[i] # "\n")

\* what the last call returned
Info == parsedPath.memo[parsedPath.path]

(***************************************************************************)
(* C24.  For every string the path parser returns null or a triple (pkg,   *)
(* version, sub) with pkg @ version sub equal to the string, pkg a bare    *)
(* name or @scope/name and version without "/"; it returns a triple        *)
(* exactly for the strings of the versioned-path grammar, and it parses    *)
(* @scope/pkg@1.0.0/lib/x.js as @scope/pkg, 1.0.0 and /lib/x.js.           *)
(***************************************************************************)
C24_ParseIsLossless ==
    parsedPath.memo # <<>> =>
        /\ Info.ok <=> InGrammar(parsedPath.path)
        /\ Info.ok =>
              /\ Info.package \o <<"@">> \o Info.version \o Info.module = parsedPath.path
              /\ IsPackageName(Info.package)
              /\ Len(Info.version) > 0
              /\ \A i \in 1..Len(Info.version) : Info.version[i] # "/"
              /\ Info.module # <<>> => Info.module[1] = "/"
        /\ parsedPath.path = ScopedExample =>
              /\ Info.ok
              /\ Info.package = SubSeq(ScopedExample, 1, 10)
              /\ Info.version = SubSeq(ScopedExample, 12, 16)
              /\ Info.module = SubSeq(ScopedExample, 17, 25)

\* the parser has split a string with a scope, a version and a tail
C24_Witness ==
    /\ parsedPath.memo # <<>>
    /\ parsedPath.path # ScopedExample
    /\ Info.ok
    /\ Info.package[1] = "@"
    /\ Info.module # <<>>

(***************************************************************************)
(* C25.  buildExtension returns a future, and a continuation attached to   *)
(* it runs only after the compilation has finished and the manifest of the *)
(* chunk has been emitted.                                                 *)
(***************************************************************************)
C25_ReturnsFuture ==
    phase # "idle" =>
        /\ built.returned = "promise"
        /\ built.then \in {"none", "attached", "ran"}
        /\ built.then = "ran" => HookDone

Settled(bundle) == bundle.loaded \/ bundle.promise = "rejected"

(***************************************************************************)
(* C27.  The record of a bundle only moves from pending to loaded or from  *)
(* pending to failed and then changes no more; and once it has left the    *)
(* pending state, by load or by error, its list of waiting callbacks is    *)
(* empty and stays empty.                                                  *)
(***************************************************************************)
C27_TerminalAndDrained ==
    [][\A url \in DOMAIN _bundles :
          /\ url \in DOMAIN _bundles'
          /\ _bundles[url].loaded =>
                _bundles'[url].loaded /\ _bundles'[url].promise # "rejected"
          /\ _bundles[url].promise = "rejected" =>
                _bundles'[url].promise = "rejected" /\ ~_bundles'[url].loaded
          /\ Settled(_bundles'[url]) => _bundles'[url].callbacks = <<>>]_vars

(***************************************************************************)
(* C28.  On script load the record is flagged loaded before the first      *)
(* waiting callback is invoked: at every invocation of a callback the      *)
(* record of its bundle is loaded, and an ensureBundle call made for the   *)
(* same URL from inside such a callback finds the bundle loaded.           *)
(***************************************************************************)
C28_LoadedBeforeDrain ==
    /\ \A j \in 1..Len(cbLog) : cbLog[j].loaded
    /\ \A k \in 1..Len(calls) :
          (calls[k].drain = calls[k].url) => calls[k].at = "loaded"

\* the callbacks of url queued while the bundle was not loaded
QueuedFor(url) == {k \in CallsFor(url) : calls[k].queued}

(***************************************************************************)
(* C29.  When the onload handler of a bundle has ended, a callback passed  *)
(* to ensureBundle for the same URL from inside a callback of the drain    *)
(* has been invoked exactly once, before the promise was resolved, and so  *)
(* has every callback queued for the URL; an ensureBundle call for another *)
(* URL made from inside the drain has created that URL's record, and the   *)
(* drain has gone on to its end: the promise is resolved.                  *)
(***************************************************************************)
C29_ReentrantDrain ==
    \A k \in 1..Len(calls) :
        (/\ calls[k].drain # ""
         /\ stack = <<>>)
        => /\ HasBundle(_bundles, calls[k].url)
           /\ _bundles[calls[k].drain].promise = "resolved"
           /\ (calls[k].url = calls[k].drain /\ calls[k].callback.given) =>
                 /\ Cardinality(InvocationsOf(k)) = 1
                 /\ \A j \in InvocationsOf(k) : cbLog[j].promise = "pending"
           /\ \A q \in QueuedFor(calls[k].drain) : Cardinality(InvocationsOf(q)) = 1

(***************************************************************************)
(* C30.  Every callback invoked by ensureBundle, at once on a loaded       *)
(* bundle or from the drain on script load, receives the require function  *)
(* bound to the loader: called as a plain function it resolves the request *)
(* against the modules of that loader.                                     *)
(***************************************************************************)
C30_CallbackGetsBoundRequire ==
    \A j \in 1..Len(cbLog) :
        /\ cbLog[j].require.bound
        /\ cbLog[j].plain # "TypeError"

(***************************************************************************)
(* The probe on the files of a small tree: every directory of depth 0..3   *)
(* over six names, with a file with an extension and one without.          *)
(***************************************************************************)
DirNames == {DirR, DirN, DirO, DirP, DirDs, DirX}

Directories ==
    {<<>>} \cup {<<a>> : a \in DirNames} \cup {<<a, b>> : a \in DirNames, b \in DirNames}
        \cup {<<a, b, c>> : a \in DirNames, b \in DirNames, c \in DirNames}

FilePaths == {Append(dir, f) : dir \in Directories, f \in {FileI, FileL}}

\* findRoot(path) and getModuleVersionPath(path) for some file path
FindRoot ==
    /\ ~probed.called
    /\ \E path \in FilePaths :
          probed' = [called |-> TRUE, path |-> path, root |-> findRoot(path),
                     definePath |-> IF findRoot(path).found
                                    THEN getModuleVersionPath(path) ELSE <<>>]
    /\ UNCHANGED <<registryVars, bundleVars, stack, pageVars, pluginVars, entryVars,
                   codecVars>>

NextProbe == FindRoot

SpecProbe == Init /\ [][NextProbe]_vars

\* the directories above a file that hold a descriptor which is not private
\* or which are the project root
Enclosing(path) ==
    {n \in 0..(Len(path) - 1) :
        /\ SubSeq(path, 1, n) \in DOMAIN Descriptors
        /\ ~Descriptors[SubSeq(path, 1, n)].private \/ SubSeq(path, 1, n) = Cwd}

(***************************************************************************)
(* C34.  For every file path the probe ends, and it returns the nearest    *)
(* directory above the file, its own directory first, that holds a         *)
(* descriptor which is not private or that is the project root; it fails   *)
(* (NotInPackage) when no directory up to the root is accepted.            *)
(***************************************************************************)
C34_NearestAccepted ==
    probed.called =>
        /\ probed.root.found <=> Enclosing(probed.path) # {}
        /\ probed.root.found =>
              /\ Len(probed.root.dir) \in Enclosing(probed.path)
              /\ \A n \in Enclosing(probed.path) : n <= Len(probed.root.dir)
              /\ probed.root.dir = SubSeq(probed.path, 1, Len(probed.root.dir))

\* the probe has passed over the private package p and a directory without
\* a descriptor and has returned the project root
C34_Witness ==
    /\ probed.called
    /\ Len(probed.path) = 4
    /\ SubSeq(probed.path, 1, 3) = <<DirR, DirN, DirP>>
    /\ probed.root.found
    /\ probed.root.dir = Cwd

(***************************************************************************)
(* C36.  The package name and the version of the define path of a module   *)
(* are those of the descriptor in the directory the probe returned for the *)
(* module, and the subpath is the path of the module below that directory; *)
(* the probe applied to its own result returns that result, also for a     *)
(* directory whose name holds a dot.                                       *)
(***************************************************************************)
C36_ProbeIsIdempotent ==
    (probed.called /\ probed.root.found) =>
        /\ findRoot(probed.root.dir).found
        /\ findRoot(probed.root.dir).dir = probed.root.dir
        /\ probed.definePath =
              WithModPath(Descriptors[probed.root.dir].name \o <<"@">>
                              \o Descriptors[probed.root.dir].version,
                          Below(probed.path, probed.root.dir))

\* the factory of the module has raised: its record is there, not loaded,
\* and no call of its factory is in progress
Broken(id) ==
    /\ id \in DOMAIN _modules
    /\ ~_modules[id].loaded
    /\ FramesOf(id) = {}

\* the step is a call of require, by the page or by a factory
RequireCalled ==
    \/ nRequires' = nRequires + 1
    \/ AtOp("factory", "require") /\ stack' # stack

\* a step keeps every record, leaves the records of the factories an error
\* unwinds not loaded, and answers a require of a broken module from its record
BrokenModuleStays ==
    /\ \A id \in DOMAIN _modules :
          /\ id \in DOMAIN _modules'
          /\ (AtOp("factory", "throw") /\ FramesOf(id) # {}) =>
                /\ stack' = <<>>
                /\ ~_modules'[id].loaded
    /\ \A id \in DOMAIN _modules :
          Broken(id) =>
             /\ ~_modules'[id].loaded
             /\ _modules'[id].exports = _modules[id].exports
             /\ invoked'[id] = invoked[id]
             /\ (RequireCalled /\ resolved'.err = "none" /\ resolved'.id = id) =>
                   /\ stack' = IF stack = <<>> THEN <<>> ELSE Advanced
                   /\ [path |-> resolved'.path, id |-> id,
                       exports |-> _modules[id].exports, during |-> TRUE]
                         \in returned'

(***************************************************************************)
(* C35.  When a factory raises during the first require of its module, the *)
(* record of the module stays in the table of module records with loaded   *)
(* = false; every later require that resolves to the module returns the    *)
(* exports of that record, raises nothing and does not invoke the factory  *)
(* again.                                                                  *)
(***************************************************************************)
C35_BrokenModuleStays == [][BrokenModuleStays]_vars

\* the factory of a@2.0.0 has raised, and a later require of a@^2.0.0 has
\* returned the exports of the record it left, which is still not loaded
C35_Witness ==
    /\ stack = <<>>
    /\ Broken(A200)
    /\ invoked[A200] = <<[callback |-> FThrow, exports |-> _modules[A200].exports]>>
    /\ [path |-> ReqA2, id |-> A200, exports |-> _modules[A200].exports,
        during |-> TRUE] \in returned
    /\ resolved = [path |-> ReqA2, err |-> "none", id |-> A200]

\* the record of the url has left the pending state: it is loaded (and its
\* promise resolved) or its promise is rejected
SettledAt(url) == HasBundle(_bundles, url) /\ Settled(_bundles[url])

(***************************************************************************)
(* C33.  When every injected script eventually fires load or error, every  *)
(* bundle record eventually leaves the pending state for loaded or failed  *)
(* and its promise is eventually settled, whatever the callbacks waiting   *)
(* on it do.                                                               *)
(***************************************************************************)
C33_EveryBundleSettles ==
    \A url \in Urls : HasBundle(_bundles, url) ~> SettledAt(url)

\* every key of the table f is a key of the table g, with the same value
\* unless the table holds records that change (module and bundle records)
Within(f, g) == DOMAIN f \subseteq DOMAIN g

\* what a step leaves alone in the tables of the instance inst
Frame(inst) ==
    /\ Len(loaders') >= inst
    /\ SubSeq(loaders'[inst]._registered, 1, Len(loaders[inst]._registered))
          = loaders[inst]._registered
    /\ Within(loaders[inst]._modules, loaders'[inst]._modules)
    /\ Within(loaders[inst]._lookupCache, loaders'[inst]._lookupCache)
    /\ \A path \in DOMAIN loaders[inst]._lookupCache :
          loaders'[inst]._lookupCache[path] = loaders[inst]._lookupCache[path]
    /\ Within(loaders[inst]._bundles, loaders'[inst]._bundles)
    /\ lastOp' = "define" =>
          /\ loaders'[inst]._modules = loaders[inst]._modules
          /\ loaders'[inst]._lookupCache = loaders[inst]._lookupCache
          /\ loaders'[inst]._bundles = loaders[inst]._bundles
    /\ lastOp' = "require" =>
          /\ loaders'[inst]._registered = loaders[inst]._registered
          /\ loaders'[inst]._bundles = loaders[inst]._bundles
    /\ lastOp' = "ensure" =>
          /\ loaders'[inst]._registered = loaders[inst]._registered
          /\ loaders'[inst]._modules = loaders[inst]._modules
          /\ loaders'[inst]._lookupCache = loaders[inst]._lookupCache

Frames ==
    /\ \A inst \in 1..Len(loaders) : Frame(inst)
    /\ lastOp' \in {"define", "require"} => pageScripts' = pageScripts
    /\ Len(pageScripts') >= Len(pageScripts)
    /\ \A i \in 1..Len(pageScripts) : pageScripts'[i].src = pageScripts[i].src

(***************************************************************************)
(* C32.  define changes only the table of registered factories; require    *)
(* (its factory doing nothing of its own) changes only the table of module *)
(* records and the lookup cache, creates no bundle record and injects no   *)
(* script; ensureBundle changes only the table of bundle records; and no   *)
(* operation removes an entry from any of the four tables.                 *)
(***************************************************************************)
C32_MutationIsConfined == [][Frames]_vars

\* on one instance define, require and ensureBundle have each added an entry:
\* the four tables are non-empty, the last call being a require
C32_Witness ==
    /\ lastOp = "require"
    /\ \E inst \in 1..Len(loaders) :
          /\ loaders[inst]._registered # <<>>
          /\ DOMAIN loaders[inst]._modules # {}
          /\ DOMAIN loaders[inst]._lookupCache # {}
          /\ DOMAIN loaders[inst]._bundles # {}
    /\ pageScripts # <<>>

\* the calls of the page's run of the build
RunLog == 1..Len(run.log)

\* the module of the compilation with the id
ModuleOfId(id) ==
    compilation.modules[CHOOSE key \in DOMAIN compilation.modules :
                            compilation.modules[key].id = id]

(***************************************************************************)
(* C31.  The require function handed to a factory carries the entry point  *)
(* of the bundle loader: an async call site the rewriter emitted, executed *)
(* inside a factory, calls ensureBundle with the rewritten URL on the      *)
(* loader that ran the factory.                                            *)
(***************************************************************************)
C31_AsyncSiteCallsEnsureBundle ==
    \A k \in RunLog :
        run.log[k].kind = "ensure" =>
            /\ run.log[k].outcome = "ensureBundle"
            /\ HasBundle(loaders[1]._bundles, run.log[k].url)

(***************************************************************************)
(* C37.  Every require path the rewriter emits for a dependency D resolves *)
(* at run time to D: on a loader where the define block of D has run and   *)
(* which holds one version of each package, require of the emitted path    *)
(* finds the module registered under the define path of D, also when the   *)
(* request of D has loader prefixes joined with "!".                       *)
(***************************************************************************)
C37_RequirePathResolves ==
    \A k \in RunLog :
        (run.log[k].kind = "require" /\ run.log[k].dep # -1) =>
            /\ run.log[k].err = "none"
            /\ run.log[k].id = getDefinePath(ModuleOfId(run.log[k].dep))

====
